---- MODULE Spec2Model ----
(***************************************************************************)
(* A model of the configuration-driven dialogue orchestrator:              *)
(*   ConfigLoader            (config/configLoader.ts)                      *)
(*   GenericIntentDetector   (core/genericIntentDetector.ts)               *)
(*   GenericSlotExtractor    (core/genericSlotExtractor.ts)                *)
(*   GenericOrchestrator     (core/genericOrchestrator.ts)                 *)
(*   InMemoryConversationStore (core/conversationMemory.ts)                *)
(* Field maps are functions from slot names to strings; a missing key is   *)
(* a name outside the function's domain, the empty string is "" and the    *)
(* JavaScript null is Null.                                                *)
(***************************************************************************)
EXTENDS Naturals, Sequences, FiniteSets, TLC

\* --------------------------------------------------------------- values

Null == "null"

EmptyMap == <<>>

\* JavaScript truthiness of a slot value (strings and null only).
Truthy(v) == v # Null /\ v # ""

Has(m, k) == k \in DOMAIN m

\* m[k] is truthy: the negation of the code's  !m[k]
Filled(m, k) == Has(m, k) /\ Truthy(m[k])

\* { ...a, ...b }
Spread(a, b) ==
    [k \in (DOMAIN a) \cup (DOMAIN b) |-> IF k \in DOMAIN b THEN b[k] ELSE a[k]]

\* m with m[k] = v assigned
Assign(m, k, v) == Spread(m, [x \in {k} |-> v])

Range(s) == {s[i] : i \in DOMAIN s}

\* array.filter(pred) on a sequence
RECURSIVE FilterSeq(_, _)
FilterSeq(s, keep) ==
    IF s = <<>> THEN <<>>
    ELSE (IF Head(s) \in keep THEN <<Head(s)>> ELSE <<>>) \o FilterSeq(Tail(s), keep)

\* ------------------------------------------------------ domain configs

Template == "Classify: {text}"

MalformedTemplate == "Classify: {text"

\* PromptTemplate.fromTemplate throws on a template that does not parse.
TemplateParses(t) == t # MalformedTemplate

AppointmentsConfig ==
    [ metadata |-> [name |-> "appointments", version |-> "1.0.0", description |-> "appointment booking"],
      intents  |-> << [name |-> "greet", patterns |-> 1, description |-> "d", skillHandler |-> "greet", slots |-> <<>>],
                      [name |-> "schedule_appointment", patterns |-> 1, description |-> "d",
                       skillHandler |-> "schedule_appointment", slots |-> <<"date", "time">>],
                      [name |-> "check_availability", patterns |-> 1, description |-> "d",
                       skillHandler |-> "check_availability", slots |-> <<"date">>] >>,
      slots    |-> << [intentName |-> "schedule_appointment",
                       defs |-> << [name |-> "date", message |-> "m", type |-> "input", choices |-> <<>>, validate |-> "none"],
                                   [name |-> "time", message |-> "m", type |-> "list",
                                    choices |-> <<"morning", "evening">>, validate |-> "none"] >>] >>,
      prompts  |-> [intentDetection |-> Template,
                    slotExtraction |-> {"schedule_appointment", "check_availability"}],
      skills   |-> << [name |-> "greet", handler |-> "fn"],
                      [name |-> "schedule_appointment", handler |-> "fn"],
                      [name |-> "check_availability", handler |-> "fn"],
                      [name |-> "unknown", handler |-> "fn"] >> ]

BankingConfig ==
    [ metadata |-> [name |-> "banking", version |-> "1.0.0", description |-> "banking"],
      intents  |-> << [name |-> "loan_inquiry", patterns |-> 1, description |-> "d",
                       skillHandler |-> "loan_inquiry", slots |-> <<"amount">>] >>,
      slots    |-> << [intentName |-> "loan_inquiry",
                       defs |-> << [name |-> "amount", message |-> "m", type |-> "input", choices |-> <<>>, validate |-> "digits"] >>] >>,
      prompts  |-> [intentDetection |-> Template, slotExtraction |-> {"loan_inquiry"}],
      skills   |-> << [name |-> "loan_inquiry", handler |-> "fn"] >> ]

\* "banking" again, its intent bound to a handler the skills map lacks.
BrokenBankingConfig ==
    [BankingConfig EXCEPT !.skills = << [name |-> "greet", handler |-> "fn"] >>]

\* A new domain whose second intent names a handler the skills map lacks.
MissingSkillConfig ==
    [ metadata |-> [name |-> "clinic", version |-> "1.0.0", description |-> ""],
      intents  |-> << [name |-> "greet", patterns |-> 1, description |-> "d", skillHandler |-> "greet", slots |-> <<>>],
                      [name |-> "symptom_check", patterns |-> 1, description |-> "d",
                       skillHandler |-> "symptom_check", slots |-> <<"symptoms">>] >>,
      slots    |-> <<>>,
      prompts  |-> [intentDetection |-> Template, slotExtraction |-> {"symptom_check"}],
      skills   |-> << [name |-> "greet", handler |-> "fn"] >> ]

\* Every handler is present, but the config is invalid for other reasons:
\* no version, a duplicate intent, a list slot without choices, a skill
\* that is not a function, no intent detection prompt.
InvalidOtherConfig ==
    [ metadata |-> [name |-> "appointments", version |-> "", description |-> "d"],
      intents  |-> << [name |-> "greet", patterns |-> 1, description |-> "", skillHandler |-> "greet"],
                      [name |-> "greet", patterns |-> 0, description |-> "d", skillHandler |-> "helper", slots |-> <<>>] >>,
      slots    |-> << [intentName |-> "greet",
                       defs |-> << [name |-> "mood", message |-> "", type |-> "list", choices |-> <<>>, validate |-> "none"],
                                   [name |-> "mood", message |-> "m", type |-> "text", choices |-> <<>>, validate |-> "none"] >>],
                      [intentName |-> "orphan", defs |-> <<>>] >>,
      prompts  |-> [intentDetection |-> ""],
      skills   |-> << [name |-> "greet", handler |-> "fn"], [name |-> "helper", handler |-> "notfn"] >> ]

\* Passes validation, but its intent detection prompt does not parse.
MalformedPromptConfig ==
    [ metadata |-> [name |-> "healthcare", version |-> "1.0.0", description |-> "d"],
      intents  |-> << [name |-> "greet", patterns |-> 1, description |-> "d", skillHandler |-> "greet", slots |-> <<>>] >>,
      slots    |-> <<>>,
      prompts  |-> [intentDetection |-> MalformedTemplate, slotExtraction |-> {}],
      skills   |-> << [name |-> "greet", handler |-> "fn"] >> ]

\* A valid domain two of whose handlers are functions that throw when
\* called: the one bound to report_issue and the one registered as 'unknown'.
SupportConfig ==
    [ metadata |-> [name |-> "support", version |-> "1.0.0", description |-> "support desk"],
      intents  |-> << [name |-> "greet", patterns |-> 1, description |-> "d", skillHandler |-> "greet", slots |-> <<>>],
                      [name |-> "report_issue", patterns |-> 1, description |-> "d",
                       skillHandler |-> "report_issue", slots |-> <<"date">>] >>,
      slots    |-> << [intentName |-> "report_issue",
                       defs |-> << [name |-> "date", message |-> "m", type |-> "input", choices |-> <<>>, validate |-> "none"] >>] >>,
      prompts  |-> [intentDetection |-> Template, slotExtraction |-> {"report_issue"}],
      skills   |-> << [name |-> "greet", handler |-> "fn"],
                      [name |-> "report_issue", handler |-> "throws"],
                      [name |-> "unknown", handler |-> "throws"] >> ]

\* A valid domain with an enumerated slot and two slots with custom
\* validators; its greet intent declares no slots, yet the config holds a
\* slot group and a slot extraction prompt under its name.
OrdersConfig ==
    [ metadata |-> [name |-> "orders", version |-> "1.0.0", description |-> "order desk"],
      intents  |-> << [name |-> "greet", patterns |-> 1, description |-> "d", skillHandler |-> "greet", slots |-> <<>>],
                      [name |-> "place_order", patterns |-> 1, description |-> "d",
                       skillHandler |-> "place_order", slots |-> <<"size", "quantity", "code">>] >>,
      slots    |-> << [intentName |-> "place_order",
                       defs |-> << [name |-> "size", message |-> "m", type |-> "list",
                                    choices |-> <<"small", "large">>, validate |-> "none"],
                                   [name |-> "quantity", message |-> "m", type |-> "input",
                                    choices |-> <<>>, validate |-> "digits"],
                                   [name |-> "code", message |-> "m", type |-> "input",
                                    choices |-> <<>>, validate |-> "code"] >>],
                      [intentName |-> "greet",
                       defs |-> << [name |-> "size", message |-> "m", type |-> "input",
                                    choices |-> <<>>, validate |-> "none"] >>] >>,
      prompts  |-> [intentDetection |-> Template, slotExtraction |-> {"place_order", "greet"}],
      skills   |-> << [name |-> "greet", handler |-> "fn"],
                      [name |-> "place_order", handler |-> "fn"] >> ]

\* The config objects a caller may pass to loadConfig and loadDomain, by key.
DomainConfigs ==
    [ appointments   |-> AppointmentsConfig,
      banking        |-> BankingConfig,
      brokenBanking  |-> BrokenBankingConfig,
      missingSkill   |-> MissingSkillConfig,
      invalidOther   |-> InvalidOtherConfig,
      malformedPrompt |-> MalformedPromptConfig,
      support        |-> SupportConfig,
      orders         |-> OrdersConfig ]

\* The configs the dialogue specification loads, and the configs the
\* loader specification loads.
DialogueConfigs == {"appointments", "banking"}

AllConfigs ==
    {"appointments", "banking", "brokenBanking", "missingSkill", "invalidOther", "malformedPrompt"}

NameOf(config) == DomainConfigs[config].metadata.name

DomainNames == {NameOf(c) : c \in AllConfigs} \cup {"nowhere"}

\* ------------------------------------------------------- ConfigLoader

IntentNames(intents) == {intents[i].name : i \in DOMAIN intents}

\* intent.slots after validateIntents has defaulted a missing list to []
SlotsOf(intent) == IF Has(intent, "slots") THEN intent.slots ELSE <<>>

\* (mutant) validateIntents warning about a missing slots list before it
\* defaults it
validateIntentAtWarningOnMissingSlots(intents, i) ==
    LET intent == intents[i]
        seen   == {intents[j].name : j \in 1..(i - 1)}
    IN  [ errors |->
              (IF intent.name \in seen THEN << <<"Duplicate intent name", intent.name, "">> >> ELSE <<>>)
           \o (IF intent.name = "" THEN << <<"Intent name is required", "", "">> >> ELSE <<>>)
           \o (IF intent.patterns = 0
               THEN << <<"Intent must have at least one pattern", intent.name, "">> >> ELSE <<>>)
           \o (IF intent.skillHandler = ""
               THEN << <<"Intent must specify a skill handler", intent.name, "">> >> ELSE <<>>),
          warnings |->
              (IF intent.description = ""
               THEN << <<"Intent should have a description", intent.name, "">> >> ELSE <<>>)
           \o (IF ~Has(intent, "slots")
               THEN << <<"Intent should declare its slots", intent.name, "">> >> ELSE <<>>) ]

validateIntentAt(intents, i) ==
    LET intent == intents[i]
        seen   == {intents[j].name : j \in 1..(i - 1)}
    IN  [ errors |->
              (IF intent.name \in seen THEN << <<"Duplicate intent name", intent.name, "">> >> ELSE <<>>)
           \o (IF intent.name = "" THEN << <<"Intent name is required", "", "">> >> ELSE <<>>)
           \o (IF intent.patterns = 0
               THEN << <<"Intent must have at least one pattern", intent.name, "">> >> ELSE <<>>)
           \o (IF intent.skillHandler = ""
               THEN << <<"Intent must specify a skill handler", intent.name, "">> >> ELSE <<>>),
          warnings |->
              IF intent.description = ""
              THEN << <<"Intent should have a description", intent.name, "">> >> ELSE <<>> ]

SystemIntents == <<"greet", "exit", "unknown">>

validateIntents(intents) ==
    LET acc[i \in 0..Len(intents)] ==
            IF i = 0 THEN [errors |-> <<>>, warnings |-> <<>>]
            ELSE [errors   |-> acc[i - 1].errors \o validateIntentAt(intents, i).errors,
                  warnings |-> acc[i - 1].warnings \o validateIntentAt(intents, i).warnings]
        sys[k \in 0..Len(SystemIntents)] ==
            IF k = 0 THEN <<>>
            ELSE sys[k - 1] \o
                 (IF SystemIntents[k] \notin IntentNames(intents)
                  THEN << <<"System intent is recommended", SystemIntents[k], "">> >> ELSE <<>>)
    IN  [errors |-> acc[Len(intents)].errors,
         warnings |-> acc[Len(intents)].warnings \o sys[Len(SystemIntents)]]

\* validateIntents also writes intent.slots = [] into the config object.
NormalizeIntents(intents) ==
    [i \in DOMAIN intents |->
        [name |-> intents[i].name, patterns |-> intents[i].patterns,
         description |-> intents[i].description, skillHandler |-> intents[i].skillHandler,
         slots |-> SlotsOf(intents[i])]]

validateSlotAt(intentName, defs, i) ==
    LET slot == defs[i]
        seen == {defs[j].name : j \in 1..(i - 1)}
    IN     (IF slot.name \in seen THEN << <<"Duplicate slot name", slot.name, intentName>> >> ELSE <<>>)
        \o (IF slot.name = "" THEN << <<"Slot is missing name", intentName, "">> >> ELSE <<>>)
        \o (IF slot.message = "" THEN << <<"Slot is missing message", slot.name, intentName>> >> ELSE <<>>)
        \o (IF slot.type \notin {"input", "list"}
            THEN << <<"Slot has invalid type", slot.name, slot.type>> >> ELSE <<>>)
        \o (IF slot.type = "list" /\ Len(slot.choices) = 0
            THEN << <<"List slot must have choices", slot.name, "">> >> ELSE <<>>)

validateSlotGroup(group) ==
    LET acc[i \in 0..Len(group.defs)] ==
            IF i = 0 THEN <<>> ELSE acc[i - 1] \o validateSlotAt(group.intentName, group.defs, i)
    IN  acc[Len(group.defs)]

GroupNames(slots) == {slots[i].intentName : i \in DOMAIN slots}

validateSlots(slots, intents) ==
    LET errs[i \in 0..Len(slots)] ==
            IF i = 0 THEN <<>> ELSE errs[i - 1] \o validateSlotGroup(slots[i])
        orphan[i \in 0..Len(slots)] ==
            IF i = 0 THEN <<>>
            ELSE orphan[i - 1] \o
                 (IF slots[i].intentName \notin IntentNames(intents)
                  THEN << <<"Slot group has no corresponding intent", slots[i].intentName, "">> >>
                  ELSE <<>>)
        undefd[i \in 0..Len(intents)] ==
            IF i = 0 THEN <<>>
            ELSE undefd[i - 1] \o
                 (IF Len(intents[i].slots) > 0 /\ intents[i].name \notin GroupNames(slots)
                  THEN << <<"Intent declares slots but has no slot definitions", intents[i].name, "">> >>
                  ELSE <<>>)
    IN  [errors |-> errs[Len(slots)],
         warnings |-> orphan[Len(slots)] \o undefd[Len(intents)]]

\* prompts.slotExtraction after validatePrompts has defaulted it to {}
SlotExtractionOf(prompts) ==
    IF Has(prompts, "slotExtraction") THEN prompts.slotExtraction ELSE {}

validatePrompts(prompts, intents) ==
    LET warn[i \in 0..Len(intents)] ==
            IF i = 0 THEN <<>>
            ELSE warn[i - 1] \o
                 (IF Len(intents[i].slots) > 0 /\ intents[i].name \notin SlotExtractionOf(prompts)
                  THEN << <<"Intent has slots but no slot extraction prompt", intents[i].name, "">> >>
                  ELSE <<>>)
    IN  [errors |-> IF prompts.intentDetection = ""
                    THEN << <<"Intent detection prompt is required", "", "">> >> ELSE <<>>,
         warnings |-> warn[Len(intents)]]

SkillNames(skills) == {skills[i].name : i \in DOMAIN skills}

\* validateSkills without its check that every intent's handler exists.
validateSkillsMissingHandlerIgnored(skills, intents) ==
    LET notfn[i \in 0..Len(skills)] ==
            IF i = 0 THEN <<>>
            ELSE notfn[i - 1] \o
                 (IF skills[i].handler = "notfn"
                  THEN << <<"Skill must be a function", skills[i].name, "">> >> ELSE <<>>)
    IN  [errors |-> notfn[Len(skills)], warnings |-> <<>>]

validateSkills(skills, intents) ==
    LET missing[i \in 0..Len(intents)] ==
            IF i = 0 THEN <<>>
            ELSE missing[i - 1] \o
                 (IF intents[i].skillHandler \notin SkillNames(skills)
                  THEN << <<"references non-existent skill", intents[i].name, intents[i].skillHandler>> >>
                  ELSE <<>>)
        notfn[i \in 0..Len(skills)] ==
            IF i = 0 THEN <<>>
            ELSE notfn[i - 1] \o
                 (IF skills[i].handler = "notfn"
                  THEN << <<"Skill must be a function", skills[i].name, "">> >> ELSE <<>>)
    IN  [errors |-> missing[Len(intents)] \o notfn[Len(skills)], warnings |-> <<>>]

\* Where validateConfig dereferences a section the config object lacks:
\* config.metadata.name, intents.map in validateSlots, slots[intent.name]
\* for an intent that declares slots, prompts.intentDetection.  A missing
\* skills map is tested for and reported as an error.
validateConfigThrows(config) ==
    \/ ~Has(config, "metadata")
    \/ ~Has(config, "intents")
    \/ /\ ~Has(config, "slots")
       /\ \E i \in DOMAIN config.intents : Len(SlotsOf(config.intents[i])) > 0
    \/ ~Has(config, "prompts")

\* The result of validateConfig when it returns; a config without a slots
\* map is read as one with no slot groups (for ... in undefined).
validateConfig(config) ==
    LET meta    == [errors |->
                        (IF config.metadata.name = ""
                         THEN << <<"Domain name is required", "", "">> >> ELSE <<>>)
                     \o (IF config.metadata.version = ""
                         THEN << <<"Domain version is required", "", "">> >> ELSE <<>>),
                    warnings |->
                        IF config.metadata.description = ""
                        THEN << <<"Domain description is recommended", "", "">> >> ELSE <<>>]
        intents == NormalizeIntents(config.intents)
        vi == IF Len(config.intents) = 0
              THEN [errors |-> << <<"At least one intent is required", "", "">> >>, warnings |-> <<>>]
              ELSE validateIntents(config.intents)
        vs == validateSlots(IF Has(config, "slots") THEN config.slots ELSE <<>>, intents)
        vp == validatePrompts(config.prompts, intents)
        vk == IF Has(config, "skills") THEN validateSkills(config.skills, intents)
              ELSE [errors |-> << <<"Skills object is required", "", "">> >>, warnings |-> <<>>]
        errors == meta.errors \o vi.errors \o vs.errors \o vp.errors \o vk.errors
    IN  [isValid  |-> Len(errors) = 0,
         errors   |-> errors,
         warnings |-> meta.warnings \o vi.warnings \o vs.warnings \o vp.warnings \o vk.warnings]

\* The RuntimeConfig loadConfig builds: the (normalised) config plus the
\* verdict.  loadedAt is left out.
RuntimeConfigOf(config) ==
    LET v == validateConfig(config)
    IN  [ metadata |-> config.metadata,
          intents  |-> NormalizeIntents(config.intents),
          slots    |-> config.slots,
          prompts  |-> [intentDetection |-> config.prompts.intentDetection,
                        slotExtraction |-> SlotExtractionOf(config.prompts)],
          skills   |-> config.skills,
          isValid  |-> v.isValid,
          validationResult |-> v ]

\* The runtime config objects, by the key of the config they were built
\* from; the state holds references to them.
RuntimeConfigs == [c \in DOMAIN DomainConfigs |-> RuntimeConfigOf(DomainConfigs[c])]

\* null, as a reference and as the object it stands for
NoConfig == "none"

\* currentSessionId's null; session ids are 1, 2, ...
NoSession == 0

NoConfigObject == [isValid |-> FALSE, none |-> TRUE]

Deref(ref) == IF ref = NoConfig THEN NoConfigObject ELSE RuntimeConfigs[ref]

IsConfig(c) == ~Has(c, "none")

\* --------------------------------------------------------------- state

VARIABLES
    loadedConfigs,        \* ConfigLoader.loadedConfigs: domain name -> runtime config (reference)
    loaderCurrentConfig,  \* ConfigLoader.currentConfig
    currentConfig,        \* GenericOrchestrator.currentConfig
    skillHandlers,        \* GenericOrchestrator.skillHandlers: skill name -> handler
    currentSessionId,     \* GenericOrchestrator.currentSessionId
    detector,             \* GenericIntentDetector: promptTemplate, validIntents
    extractor,            \* GenericSlotExtractor: promptTemplates, slotDefinitions
    sessions,             \* InMemoryConversationStore: session id -> session
    nextSessionId,        \* the next fresh session id
    now,                  \* Date.now(), in ticks
    inflight,             \* the processMessage calls suspended on an await: call id -> call
    memory,               \* ConversationMemory.state (the single-conversation memory)
    last                  \* the last call made and what it returned

configVars == <<loadedConfigs, loaderCurrentConfig, currentConfig, skillHandlers, detector, extractor>>

sessionVars == <<currentSessionId, sessions, nextSessionId>>

asyncVars == <<now, inflight>>

vars == <<loadedConfigs, loaderCurrentConfig, currentConfig, skillHandlers, currentSessionId,
          detector, extractor, sessions, nextSessionId, now, inflight, memory, last>>

\* ------------------------------------------- ConfigLoader operations

\* (mutant) loadConfig storing only a config that passed validation
StoreConfigOnlyValid(loaded, config) ==
    IF RuntimeConfigs[config].isValid THEN Assign(loaded, NameOf(config), config) ELSE loaded

\* loadConfig always stores the runtime config under its name ...
StoreConfig(loaded, config) == Assign(loaded, NameOf(config), config)

\* ... and makes it current only if it is valid.
CurrentAfterLoad(cur, config) == IF RuntimeConfigs[config].isValid THEN config ELSE cur

\* (mutant) switchToConfig without the isValid test
CanSwitchToAnyLoaded(loaded, domainName) == Has(loaded, domainName)

\* switchToConfig's test: a config is stored under the name and it is valid
CanSwitchTo(loaded, domainName) ==
    Has(loaded, domainName) /\ RuntimeConfigs[loaded[domainName]].isValid

LoadConfig(config) ==
    LET rc == RuntimeConfigs[config]
    IN  /\ loadedConfigs' = StoreConfig(loadedConfigs, config)
        /\ loaderCurrentConfig' = CurrentAfterLoad(loaderCurrentConfig, config)
        /\ last' = [op |-> "loadConfig", config |-> config, name |-> NameOf(config), ret |-> rc.isValid]
        /\ UNCHANGED <<currentConfig, skillHandlers, detector, extractor>>
        /\ UNCHANGED sessionVars
        /\ UNCHANGED asyncVars
        /\ UNCHANGED memory

SwitchToConfig(domainName) ==
    /\ IF CanSwitchTo(loadedConfigs, domainName)
       THEN /\ loaderCurrentConfig' = loadedConfigs[domainName]
            /\ last' = [op |-> "switchToConfig", name |-> domainName, ret |-> TRUE]
       ELSE /\ UNCHANGED loaderCurrentConfig
            /\ last' = [op |-> "switchToConfig", name |-> domainName, ret |-> FALSE]
    /\ UNCHANGED <<loadedConfigs, currentConfig, skillHandlers, detector, extractor>>
    /\ UNCHANGED sessionVars
    /\ UNCHANGED asyncVars
    /\ UNCHANGED memory

\* --------------------------------- detector and extractor bindings

DetectorReset == [promptTemplate |-> Null, validIntents |-> <<>>]

ExtractorReset == [promptTemplates |-> {}, slotDefinitions |-> <<>>]

\* GenericIntentDetector.initialize throws on an invalid config and on a
\* prompt that does not parse.
DetectorInitThrows(config) ==
    ~config.isValid \/ ~TemplateParses(config.prompts.intentDetection)

DetectorInitialized(config) ==
    [promptTemplate |-> config.prompts.intentDetection,
     validIntents   |-> [i \in DOMAIN config.intents |-> config.intents[i].name]]

ExtractorInitThrows(config) == ~config.isValid

ExtractorInitialized(config) ==
    [promptTemplates |-> config.prompts.slotExtraction,
     slotDefinitions |-> config.slots]

\* initializeComponents: both reset, then the detector, then the extractor
\* initialised; the first throw ends it.
initializeComponents(config) ==
    IF DetectorInitThrows(config)
    THEN [threw |-> TRUE, detector |-> DetectorReset, extractor |-> ExtractorReset]
    ELSE IF ExtractorInitThrows(config)
    THEN [threw |-> TRUE, detector |-> DetectorInitialized(config), extractor |-> ExtractorReset]
    ELSE [threw |-> FALSE, detector |-> DetectorInitialized(config),
          extractor |-> ExtractorInitialized(config)]

\* extractSkillHandlers: the table cleared, then one entry per skill
extractSkillHandlers(config) ==
    [n \in SkillNames(config.skills) |->
        config.skills[CHOOSE i \in DOMAIN config.skills :
            /\ config.skills[i].name = n
            /\ \A j \in DOMAIN config.skills : config.skills[j].name = n => j <= i].handler]

\* ------------------------------------------ GenericOrchestrator: domains

\* (mutant) loadDomain without its isValid gate
LoadDomainRejectsNever(rc) == FALSE

\* loadDomain's gate: an invalid runtime config is rejected
LoadDomainRejects(rc) == ~rc.isValid

LoadDomain(config) ==
    LET rc   == RuntimeConfigs[config]
        init == initializeComponents(rc)
    IN  /\ loadedConfigs' = StoreConfig(loadedConfigs, config)
        /\ loaderCurrentConfig' = CurrentAfterLoad(loaderCurrentConfig, config)
        /\ IF LoadDomainRejects(rc)
           THEN /\ UNCHANGED <<currentConfig, skillHandlers, detector, extractor>>
                /\ last' = [op |-> "loadDomain", config |-> config, name |-> NameOf(config), ret |-> FALSE]
           ELSE /\ currentConfig' = config
                /\ detector' = init.detector
                /\ extractor' = init.extractor
                /\ IF init.threw
                   THEN /\ UNCHANGED skillHandlers
                        /\ last' = [op |-> "loadDomain", config |-> config, name |-> NameOf(config), ret |-> FALSE]
                   ELSE /\ skillHandlers' = extractSkillHandlers(rc)
                        /\ last' = [op |-> "loadDomain", config |-> config, name |-> NameOf(config), ret |-> TRUE]
        /\ UNCHANGED sessionVars
        /\ UNCHANGED asyncVars
        /\ UNCHANGED memory

\* switchDomain's writes: the loader's and the engine's config, the bindings
\* and the handler table.
SwitchDomainEngine(domainName) ==
    /\ IF CanSwitchTo(loadedConfigs, domainName)
       THEN LET newConfig == loadedConfigs[domainName]
                init      == initializeComponents(RuntimeConfigs[newConfig])
            IN  /\ loaderCurrentConfig' = newConfig
                /\ currentConfig' = newConfig
                /\ detector' = init.detector
                /\ extractor' = init.extractor
                /\ IF init.threw
                   THEN /\ UNCHANGED skillHandlers
                        /\ last' = [op |-> "switchDomain", name |-> domainName, ret |-> FALSE, threw |-> TRUE]
                   ELSE /\ skillHandlers' = extractSkillHandlers(RuntimeConfigs[newConfig])
                        /\ last' = [op |-> "switchDomain", name |-> domainName, ret |-> TRUE]
       ELSE /\ UNCHANGED <<loaderCurrentConfig, currentConfig, skillHandlers, detector, extractor>>
            /\ last' = [op |-> "switchDomain", name |-> domainName, ret |-> FALSE]
    /\ UNCHANGED loadedConfigs

\* (mutant) switchDomain starting from an empty session store
SwitchDomainClearingSessions(domainName) ==
    /\ SwitchDomainEngine(domainName)
    /\ sessions' = EmptyMap
    /\ currentSessionId' = NoSession
    /\ UNCHANGED nextSessionId
    /\ UNCHANGED asyncVars
    /\ UNCHANGED memory

\* switchDomain touches neither the session store nor the current session.
SwitchDomain(domainName) ==
    /\ SwitchDomainEngine(domainName)
    /\ UNCHANGED sessionVars
    /\ UNCHANGED asyncVars
    /\ UNCHANGED memory

\* ------------------------------------------ InMemoryConversationStore
\* Every operation that changes a session sets its lastActivity to the
\* current time.

FlowCap == 10

TrivialIntents == {"greet", "exit", "unknown"}

\* getSlotCollectionState's null
NoCollection == [none |-> TRUE]

IsCollecting(c) == ~Has(c, "none")

createSession(domain) ==
    [ domain  |-> domain,
      turns   |-> <<>>,
      context |-> [ currentTopic |-> Null, currentDomain |-> domain, lastIntent |-> Null,
                    entityMentions |-> EmptyMap, conversationFlow |-> <<"session_start">>,
                    slotCollectionInProgress |-> NoCollection ],
      preferences |-> [preferredTimeOfDay |-> Null, preferredDays |-> <<>>],
      lastActivity |-> now ]

getContext(store, sid) == IF Has(store, sid) THEN store[sid].context ELSE [none |-> TRUE]

getPreferences(store, sid) == IF Has(store, sid) THEN store[sid].preferences ELSE [none |-> TRUE]

getSlotCollectionState(store, sid) ==
    IF Has(store, sid) THEN store[sid].context.slotCollectionInProgress ELSE NoCollection

\* (mutant) the flow cut to its first FlowCap entries
TrimFlowKeepingOldest(flow) ==
    IF Len(flow) > FlowCap THEN SubSeq(flow, 1, FlowCap) ELSE flow

\* The last FlowCap entries of a flow.
TrimFlow(flow) ==
    IF Len(flow) > FlowCap THEN SubSeq(flow, Len(flow) - FlowCap + 1, Len(flow)) ELSE flow

\* Passive inference: the time of day a time value names, the weekdays a
\* date value names.
TimeOfDayOf(v) ==
    IF v = "morning" THEN "morning"
    ELSE IF v = "evening" THEN "evening" ELSE Null

DaysIn(v) ==
    IF v = "monday" THEN <<"monday">>
    ELSE IF v \in {"friday", " friday"} THEN <<"friday">> ELSE <<>>

AddDays(days, new) == days \o FilterSeq(new, Range(new) \ Range(days))

InferPreferences(prefs, slots) ==
    [ preferredTimeOfDay |->
          IF Has(slots, "time") /\ TimeOfDayOf(slots["time"]) # Null
          THEN TimeOfDayOf(slots["time"]) ELSE prefs.preferredTimeOfDay,
      preferredDays |->
          IF Has(slots, "date") THEN AddDays(prefs.preferredDays, DaysIn(slots["date"]))
          ELSE prefs.preferredDays ]

\* (mutant) addTurn replacing the history by the new turn
TurnsAfterAddOverwriting(turns, turn) == <<turn>>

TurnsAfterAdd(turns, turn) == Append(turns, turn)

addTurn(store, sid, turn) ==
    IF ~Has(store, sid) THEN store
    ELSE LET s   == store[sid]
             ctx == s.context
         IN  [store EXCEPT ![sid] =
                [ domain  |-> s.domain,
                  turns   |-> TurnsAfterAdd(s.turns, turn),
                  context |-> [ currentTopic |-> IF turn.detectedIntent \in TrivialIntents
                                                 THEN ctx.currentTopic ELSE turn.detectedIntent,
                                currentDomain |-> ctx.currentDomain,
                                lastIntent |-> turn.detectedIntent,
                                entityMentions |-> Spread(ctx.entityMentions, turn.extractedSlots),
                                conversationFlow |-> TrimFlow(Append(ctx.conversationFlow, turn.detectedIntent)),
                                slotCollectionInProgress |-> ctx.slotCollectionInProgress ],
                  preferences |-> InferPreferences(s.preferences, turn.extractedSlots),
                  lastActivity |-> now ]]

\* requiredSlots without the keys of collectedSlots, declaration order kept
MissingOf(requiredSlots, collectedSlots) ==
    FilterSeq(requiredSlots, Range(requiredSlots) \ DOMAIN collectedSlots)

startSlotCollection(store, sid, intent, requiredSlots) ==
    IF ~Has(store, sid) THEN store
    ELSE [store EXCEPT ![sid].context.slotCollectionInProgress =
            [ targetIntent |-> intent, requiredSlots |-> requiredSlots,
              collectedSlots |-> EmptyMap, missingSlots |-> requiredSlots ],
                       ![sid].lastActivity = now]

\* (mutant) updateSlotCollection storing every value it is given
NonEmptyOfKeepingAll(slots) == slots

\* the entries of a field map whose value is not null, undefined or ''
NonEmptyOf(slots) ==
    [k \in {x \in DOMAIN slots : Truthy(slots[x])} |-> slots[k]]

updateSlotCollection(store, sid, slots) ==
    IF ~Has(store, sid) \/ ~IsCollecting(getSlotCollectionState(store, sid)) THEN store
    ELSE LET c   == store[sid].context.slotCollectionInProgress
             col == Spread(c.collectedSlots, NonEmptyOf(slots))
         IN  [store EXCEPT ![sid].context.slotCollectionInProgress =
                [ targetIntent |-> c.targetIntent, requiredSlots |-> c.requiredSlots,
                  collectedSlots |-> col, missingSlots |-> MissingOf(c.requiredSlots, col) ],
                           ![sid].lastActivity = now]

completeSlotCollection(store, sid) ==
    IF ~Has(store, sid) THEN store
    ELSE [store EXCEPT ![sid].context.slotCollectionInProgress = NoCollection,
                       ![sid].context.conversationFlow = Append(@, "slot_collection_complete"),
                       ![sid].lastActivity = now]

isWaitingForSlot(store, sid, slotName) ==
    /\ IsCollecting(getSlotCollectionState(store, sid))
    /\ slotName \in Range(getSlotCollectionState(store, sid).missingSlots)

\* (mutant) a session last used exactly at the cutoff deleted as well
cleanupOldSessionsAtCutoff(store, maxAgeMinutes) ==
    LET removed == {sid \in DOMAIN store : store[sid].lastActivity <= now - maxAgeMinutes}
    IN  [ store |-> [sid \in (DOMAIN store) \ removed |-> store[sid]],
          count |-> Cardinality(removed) ]

\* cleanupOldSessions(maxAgeMinutes): the sessions last used before the
\* cutoff are deleted and counted.
cleanupOldSessions(store, maxAgeMinutes) ==
    LET cutoff  == now - maxAgeMinutes
        removed == {sid \in DOMAIN store : store[sid].lastActivity < cutoff}
    IN  [ store |-> [sid \in (DOMAIN store) \ removed |-> store[sid]],
          count |-> Cardinality(removed) ]

\* ------------------------------------- detection and extraction ports

\* What the language model may answer to the classification prompt; the
\* call may also fail.
ModelError == "model call failed"

ModelAnswers ==
    {"greet", "schedule_appointment", "check_availability", "loan_inquiry", ModelError}

\* detectIntent: binds itself to the loader's current config when it has
\* no prompt, then maps the answer to a valid intent or 'unknown'.
DetectorAutoInitThrows(det, loaderCur) ==
    det.promptTemplate = Null /\ (~IsConfig(loaderCur) \/ DetectorInitThrows(loaderCur))

DetectorAfterDetect(det, loaderCur) ==
    IF det.promptTemplate = Null /\ ~DetectorAutoInitThrows(det, loaderCur)
    THEN DetectorInitialized(loaderCur) ELSE det

detectIntent(det, answer) ==
    IF answer # ModelError /\ answer \in Range(det.validIntents) THEN answer ELSE "unknown"

\* String(value).trim()
Trim(v) ==
    IF v = " friday" THEN "friday"
    ELSE IF v = " large " THEN "large" ELSE v

\* What a slot's custom validator does with the trimmed string: it returns
\* true, returns a message, returns false, or throws.
ValidatorOutcome(validate, v) ==
    IF validate = "digits" THEN (IF v \in {"5000"} THEN "true" ELSE "message")
    ELSE IF validate = "code"
         THEN (IF v = "A1" THEN "true" ELSE IF v = "?" THEN "throws" ELSE "false")
    ELSE "true"

\* (mutant) a validator's answer tested for truthiness, not for true
ValidatorAcceptsTruthy(validate, v) == ValidatorOutcome(validate, v) \in {"true", "message"}

\* validationResult === true, inside try/catch
ValidatorAccepts(validate, v) == ValidatorOutcome(validate, v) = "true"

\* (mutant) validateSlotValue without the test against the choices
validateSlotValueAnyChoice(slotDef, value) ==
    IF ~Truthy(value) THEN Null
    ELSE IF slotDef.type = "list" THEN Trim(value)
    ELSE IF slotDef.validate # "none"
         THEN (IF ValidatorAccepts(slotDef.validate, Trim(value)) THEN Trim(value) ELSE Null)
    ELSE Trim(value)

\* validateSlotValue: Null stands for the dropped value
validateSlotValue(slotDef, value) ==
    IF ~Truthy(value) THEN Null
    ELSE IF slotDef.type = "list"
         THEN (IF Trim(value) \in Range(slotDef.choices) THEN Trim(value) ELSE Null)
    ELSE IF slotDef.validate # "none"
         THEN (IF ValidatorAccepts(slotDef.validate, Trim(value)) THEN Trim(value) ELSE Null)
    ELSE Trim(value)

SlotDefsFor(slotDefinitions, intentName) ==
    IF intentName \in GroupNames(slotDefinitions)
    THEN slotDefinitions[CHOOSE i \in DOMAIN slotDefinitions :
             /\ slotDefinitions[i].intentName = intentName
             /\ \A j \in DOMAIN slotDefinitions :
                    slotDefinitions[j].intentName = intentName => j <= i].defs
    ELSE <<>>

SlotDefNamed(defs, slotName) ==
    defs[CHOOSE i \in DOMAIN defs :
            /\ defs[i].name = slotName
            /\ \A j \in DOMAIN defs : defs[j].name = slotName => i <= j]

validateAndCleanSlots(slotDefinitions, intentName, extractedSlots) ==
    IF intentName \notin GroupNames(slotDefinitions) THEN extractedSlots
    ELSE LET defs    == SlotDefsFor(slotDefinitions, intentName)
             defined == {defs[i].name : i \in DOMAIN defs}
             kept    == {k \in DOMAIN extractedSlots :
                            k \in defined =>
                                validateSlotValue(SlotDefNamed(defs, k), extractedSlots[k]) # Null}
         IN  [k \in kept |->
                 IF k \in defined THEN validateSlotValue(SlotDefNamed(defs, k), extractedSlots[k])
                 ELSE extractedSlots[k]]

\* extractSlots binds itself to the loader's current config when it holds
\* no prompt template.
ExtractorAfterExtract(ext, loaderCur) ==
    IF ext.promptTemplates = {} /\ IsConfig(loaderCur) /\ ~ExtractorInitThrows(loaderCur)
    THEN ExtractorInitialized(loaderCur) ELSE ext

ExtractorAutoInitThrows(ext, loaderCur) ==
    ext.promptTemplates = {} /\ (~IsConfig(loaderCur) \/ ExtractorInitThrows(loaderCur))

\* extractSlots, once bound: raw is the model's JSON answer (EmptyMap when
\* the call failed or no JSON was found).
extractSlots(ext, intentName, raw) ==
    IF intentName \notin ext.promptTemplates THEN EmptyMap
    ELSE validateAndCleanSlots(ext.slotDefinitions, intentName, raw)

\* The calls to the language model one detectIntent followed by one
\* extractSlots makes: the classification call unless the detector's binding
\* threw, the extraction call when the extractor is bound and holds a prompt
\* template for the intent.
ModelCalls(det, ext, loaderCur, intentName) ==
    IF DetectorAutoInitThrows(det, loaderCur) THEN {}
    ELSE {"classify"} \cup
         (IF /\ ~ExtractorAutoInitThrows(ext, loaderCur)
             /\ intentName \in ExtractorAfterExtract(ext, loaderCur).promptTemplates
          THEN {"extract"} ELSE {})

\* ---------------------------------- GenericOrchestrator: processMessage

\* (mutant) the collected slots laid over the fresh ones
MergeCollectedCollectedWins(collected, fresh) == Spread(fresh, collected)

\* { ...slotCollectionState.collectedSlots, ...extractedSlots }
MergeCollected(collected, fresh) == Spread(collected, fresh)

extractSlotsWithContext(fresh, context, preferences, slotCollectionState) ==
    LET s1 == IF IsCollecting(slotCollectionState)
              THEN MergeCollected(slotCollectionState.collectedSlots, fresh) ELSE fresh
        s2 == IF ~Has(preferences, "none") /\ ~Filled(s1, "time")
                 /\ Truthy(preferences.preferredTimeOfDay)
              THEN Assign(s1, "time", preferences.preferredTimeOfDay) ELSE s1
        s3 == IF ~Has(preferences, "none") /\ ~Filled(s2, "date")
                 /\ Len(preferences.preferredDays) > 0
              THEN Assign(s2, "date", preferences.preferredDays[1]) ELSE s2
        em == IF Has(context, "none") THEN EmptyMap ELSE context.entityMentions
    IN  [k \in (DOMAIN s3) \cup {e \in DOMAIN em : ~Filled(s3, e) /\ Truthy(em[e])} |->
            IF ~Filled(s3, k) /\ Has(em, k) /\ Truthy(em[k]) THEN em[k] ELSE s3[k]]

\* intents.find(i => i.name === intent): the index of the first match, 0 if none
FindIntent(config, intent) ==
    IF IsConfig(config) /\ intent \in IntentNames(config.intents)
    THEN CHOOSE i \in DOMAIN config.intents :
            /\ config.intents[i].name = intent
            /\ \A j \in DOMAIN config.intents : config.intents[j].name = intent => i <= j
    ELSE 0

RequiredSlots(config, intent) ==
    IF FindIntent(config, intent) = 0 THEN <<>>
    ELSE config.intents[FindIntent(config, intent)].slots

\* (mutant) every required slot counted as missing
MissingSlotsAll(requiredSlots, extractedSlots) == requiredSlots

\* requiredSlots.filter(slot => !extractedSlots[slot] || extractedSlots[slot] === '')
MissingSlots(requiredSlots, extractedSlots) ==
    FilterSeq(requiredSlots, {k \in Range(requiredSlots) : ~Filled(extractedSlots, k)})

\* (mutant) the question asked for the last missing slot
NextSlotLast(missingSlots) == missingSlots[Len(missingSlots)]

\* missingSlots[0]
NextSlot(missingSlots) == missingSlots[1]

FollowUpQuestions ==
    [ schedule_appointment |-> [ service |-> "What type of service would you like to schedule?",
                                 date |-> "What date would you prefer for your appointment?",
                                 time |-> "What time works best for you?",
                                 doctor |-> "Which doctor would you like to see?",
                                 phone |-> "Could you please provide your phone number?" ],
      cancel_appointment   |-> [ confirmation_id |-> "Could you please provide your appointment confirmation ID (e.g., APT-123456)?" ],
      check_availability   |-> [ service |-> "What type of service are you looking for?",
                                 date |-> "What date would you like to check availability for?" ],
      loan_inquiry         |-> [ amount |-> "How much would you like to borrow?",
                                 purpose |-> "What is the loan for?",
                                 income |-> "What is your annual income?" ],
      balance_check        |-> [ account_type |-> "Which account would you like to check? (checking, savings, credit)" ],
      transaction_history  |-> [ account_type |-> "Which account's history would you like to see?",
                                 date_range |-> "What time period would you like to see? (Last 30 days, Last 3 months, etc.)" ],
      symptom_check        |-> [ symptoms |-> "Could you describe your symptoms in more detail?",
                                 duration |-> "How long have you been experiencing these symptoms?" ],
      prescription_refill  |-> [ medication |-> "Which medication do you need refilled?",
                                 pharmacy |-> "Which pharmacy would you like to use?" ] ]

\* A slot name is its underscore-free parts joined by underscores
\* ("date_of_birth" is date, of, birth); an empty part stands for two
\* underscores in a row or one at an end.
NameWords == {"account", "type", "date", "of", "birth", ""}

MaxNameWords == 3

SlotNameParts == UNION {[1..n -> NameWords] : n \in 1..MaxNameWords}

\* The string of parts joined by separators, one between neighbours.
RECURSIVE JoinName(_, _)
JoinName(parts, seps) ==
    IF Len(parts) = 1 THEN parts[1]
    ELSE parts[1] \o seps[1] \o JoinName(Tail(parts), Tail(seps))

Underscores(n) == [i \in 1..n |-> "_"]

SlotNameOf(parts) == JoinName(parts, Underscores(Len(parts) - 1))

\* The slot names with their parts, within the bound.
SlotNameTable == [parts \in SlotNameParts |-> SlotNameOf(parts)]

KnownSlotNames == {SlotNameTable[parts] : parts \in SlotNameParts}

SplitName(slotName) == CHOOSE parts \in SlotNameParts : SlotNameTable[parts] = slotName

\* String.prototype.replace with a string pattern: the first occurrence
\* only.
ReplaceFirst(seps, by) == IF seps = <<>> THEN <<>> ELSE <<by>> \o Tail(seps)

\* slotName.replace('_', ' '): the first underscore becomes a space. A
\* name outside the table has no underscore.
ReplaceUnderscore(slotName) ==
    IF slotName \in KnownSlotNames
    THEN JoinName(SplitName(slotName),
                  ReplaceFirst(Underscores(Len(SplitName(slotName)) - 1), " "))
    ELSE slotName

generateSlotFollowUpQuestion(slotName, intent) ==
    IF Has(FollowUpQuestions, intent) /\ Has(FollowUpQuestions[intent], slotName)
    THEN [kind |-> "followup", text |-> FollowUpQuestions[intent][slotName], arg |-> ""]
    ELSE [kind |-> "followup", text |-> "Could you please provide your <slot>?",
          arg |-> ReplaceUnderscore(slotName)]

\* (mutant) handleSlotCollection without its early return for an intent
\* that needs no slots: nothing is missing, so a collection in progress is
\* completed
handleSlotCollectionWithoutShortcut(config, store, intent, extractedSlots, sid) ==
    LET requiredSlots == RequiredSlots(config, intent)
        missingSlots  == MissingSlots(requiredSlots, extractedSlots)
        state         == getSlotCollectionState(store, sid)
        started       == IF IsCollecting(state) THEN store
                         ELSE startSlotCollection(store, sid, intent, requiredSlots)
    IN  IF Len(missingSlots) = 0
        THEN [store |-> IF IsCollecting(state) THEN completeSlotCollection(store, sid) ELSE store,
              finalSlots |-> extractedSlots, needsMoreInfo |-> FALSE, followUpMessage |-> Null]
        ELSE [store |-> updateSlotCollection(started, sid, extractedSlots),
              finalSlots |-> extractedSlots, needsMoreInfo |-> TRUE,
              followUpMessage |-> generateSlotFollowUpQuestion(NextSlot(missingSlots), intent)]

\* (mutant) the collection kept in the engine's current session, whatever
\* session the message is for
handleSlotCollectionOnCurrent(config, store, intent, extractedSlots, sid) ==
    LET requiredSlots == RequiredSlots(config, intent)
        missingSlots  == MissingSlots(requiredSlots, extractedSlots)
        state         == getSlotCollectionState(store, currentSessionId)
        started       == IF IsCollecting(state) THEN store
                         ELSE startSlotCollection(store, currentSessionId, intent, requiredSlots)
    IN  IF Len(requiredSlots) = 0
        THEN [store |-> store, finalSlots |-> extractedSlots, needsMoreInfo |-> FALSE,
              followUpMessage |-> Null]
        ELSE IF Len(missingSlots) = 0
        THEN [store |-> IF IsCollecting(state) THEN completeSlotCollection(store, currentSessionId)
                        ELSE store,
              finalSlots |-> extractedSlots, needsMoreInfo |-> FALSE, followUpMessage |-> Null]
        ELSE [store |-> updateSlotCollection(started, currentSessionId, extractedSlots),
              finalSlots |-> extractedSlots, needsMoreInfo |-> TRUE,
              followUpMessage |-> generateSlotFollowUpQuestion(NextSlot(missingSlots), intent)]

\* (mutant) handleSlotCollection starting a collection whenever a slot is
\* missing, without looking for one in progress
handleSlotCollectionRestarting(config, store, intent, extractedSlots, sid) ==
    LET requiredSlots == RequiredSlots(config, intent)
        missingSlots  == MissingSlots(requiredSlots, extractedSlots)
        state         == getSlotCollectionState(store, sid)
        started       == startSlotCollection(store, sid, intent, requiredSlots)
    IN  IF Len(requiredSlots) = 0
        THEN [store |-> store, finalSlots |-> extractedSlots, needsMoreInfo |-> FALSE,
              followUpMessage |-> Null]
        ELSE IF Len(missingSlots) = 0
        THEN [store |-> IF IsCollecting(state) THEN completeSlotCollection(store, sid) ELSE store,
              finalSlots |-> extractedSlots, needsMoreInfo |-> FALSE, followUpMessage |-> Null]
        ELSE [store |-> updateSlotCollection(started, sid, extractedSlots),
              finalSlots |-> extractedSlots, needsMoreInfo |-> TRUE,
              followUpMessage |-> generateSlotFollowUpQuestion(NextSlot(missingSlots), intent)]

handleSlotCollection(config, store, intent, extractedSlots, sid) ==
    LET requiredSlots == RequiredSlots(config, intent)
        missingSlots  == MissingSlots(requiredSlots, extractedSlots)
        state         == getSlotCollectionState(store, sid)
        started       == IF IsCollecting(state) THEN store
                         ELSE startSlotCollection(store, sid, intent, requiredSlots)
    IN  IF Len(requiredSlots) = 0
        THEN [store |-> store, finalSlots |-> extractedSlots, needsMoreInfo |-> FALSE,
              followUpMessage |-> Null]
        ELSE IF Len(missingSlots) = 0
        THEN [store |-> IF IsCollecting(state) THEN completeSlotCollection(store, sid) ELSE store,
              finalSlots |-> extractedSlots, needsMoreInfo |-> FALSE, followUpMessage |-> Null]
        ELSE [store |-> updateSlotCollection(started, sid, extractedSlots),
              finalSlots |-> extractedSlots, needsMoreInfo |-> TRUE,
              followUpMessage |-> generateSlotFollowUpQuestion(NextSlot(missingSlots), intent)]

FallbackResponse ==
    [kind |-> "fallback",
     text |-> "I'm sorry, I didn't understand that. Could you please rephrase your request?", arg |-> ""]

UnavailableResponse ==
    [kind |-> "unavailable",
     text |-> "Sorry, I can't handle that request right now. The service is temporarily unavailable.", arg |-> ""]

SkillErrorResponse ==
    [kind |-> "skill_error",
     text |-> "Sorry, I encountered an error while processing your request. Please try again.", arg |-> ""]

ErrorResponse ==
    [kind |-> "error",
     text |-> "Sorry, I encountered an error while processing your request. Please try again in a moment.", arg |-> ""]

NoDomainResponse ==
    [kind |-> "no_domain",
     text |-> "No domain configuration loaded. Please load a domain first.", arg |-> ""]

\* What a handler that returns replies: domain content, named by its skill.
SkillResponse(skillName) == [kind |-> "skill", text |-> skillName, arg |-> ""]

\* (mutant) getUnknownIntentResponse without its try/catch: the throw of
\* the 'unknown' handler reaches processMessage's catch
getUnknownIntentResponseUncaught(handlers) ==
    IF Has(handlers, "unknown")
    THEN [response |-> IF handlers["unknown"] = "fn" THEN SkillResponse("unknown") ELSE ErrorResponse,
          invoked |-> "unknown"]
    ELSE [response |-> FallbackResponse, invoked |-> Null]

getUnknownIntentResponse(handlers) ==
    IF Has(handlers, "unknown")
    THEN [response |-> IF handlers["unknown"] = "fn" THEN SkillResponse("unknown") ELSE FallbackResponse,
          invoked |-> "unknown"]
    ELSE [response |-> FallbackResponse, invoked |-> Null]

\* (mutant) executeSkill without the try/catch around the handler call
executeSkillUncaught(config, handlers, intent, extractedSlots) ==
    IF FindIntent(config, intent) = 0 THEN getUnknownIntentResponse(handlers)
    ELSE LET skillHandler == config.intents[FindIntent(config, intent)].skillHandler
         IN  IF ~Has(handlers, skillHandler)
             THEN [response |-> UnavailableResponse, invoked |-> Null]
             ELSE [response |-> IF handlers[skillHandler] = "fn"
                                THEN SkillResponse(skillHandler) ELSE ErrorResponse,
                   invoked |-> skillHandler]

executeSkill(config, handlers, intent, extractedSlots) ==
    IF FindIntent(config, intent) = 0 THEN getUnknownIntentResponse(handlers)
    ELSE LET skillHandler == config.intents[FindIntent(config, intent)].skillHandler
         IN  IF ~Has(handlers, skillHandler)
             THEN [response |-> UnavailableResponse, invoked |-> Null]
             ELSE [response |-> IF handlers[skillHandler] = "fn"
                                THEN SkillResponse(skillHandler) ELSE SkillErrorResponse,
                   invoked |-> skillHandler]

\* ------------------------------------------------------------- inputs

MaxSessions == 1

MaxTurns == 2

\* What a user may say, with the fields the language model reads in it.
Utterances ==
    { [text |-> "hello",          fields |-> EmptyMap],
      [text |-> "on monday",      fields |-> [date |-> "monday"]],
      [text |-> "friday evening", fields |-> [date |-> " friday", time |-> "evening"]],
      [text |-> "at noon",        fields |-> [date |-> "", time |-> "noon"]],
      [text |-> "5000",           fields |-> [amount |-> "5000"]] }

\* The ids a caller may pass: none, a session of the store, or an id the
\* store does not hold.
SessionArgs == 0..MaxSessions

RECURSIVE SumTurns(_, _)
SumTurns(store, ids) ==
    IF ids = {} THEN 0
    ELSE LET sid == CHOOSE x \in ids : TRUE
         IN  Len(store[sid].turns) + SumTurns(store, ids \ {sid})

TotalTurns == SumTurns(sessions, DOMAIN sessions)

\* ------------------------------- ConversationMemory (single conversation)
\* The memory of the command-line assistant: one intent, the slots
\* collected for it and the time of the last message.

\* The state of a new or cleared memory at a time.
NoConversation(time) ==
    [currentIntent |-> Null, collectedSlots |-> EmptyMap, lastMessageTime |-> time]

\* timeoutMs, in ticks of one minute
ConversationTimeout == 5

\* (mutant) isCurrentConversation without the timeout
isCurrentConversationForEver(state, intent) == state.currentIntent = intent

isCurrentConversation(state, intent) ==
    /\ state.currentIntent = intent
    /\ now - state.lastMessageTime < ConversationTimeout

\* (mutant) a continued conversation holding the new slots only
ContinuedSlotsOnlyNew(collectedSlots, newSlots) == newSlots

\* (mutant) a continued conversation keeping the old value of a slot
\* given again
ContinuedSlotsOldWins(collectedSlots, newSlots) == Spread(newSlots, collectedSlots)

\* { ...this.state.collectedSlots, ...newSlots }
ContinuedSlots(collectedSlots, newSlots) == Spread(collectedSlots, newSlots)

\* The state after the call and what it returns.
startOrContinueConversationWithFeedback(state, intent, newSlots) ==
    [ state |->
          IF isCurrentConversation(state, intent)
          THEN [currentIntent |-> state.currentIntent,
                collectedSlots |-> ContinuedSlots(state.collectedSlots, newSlots),
                lastMessageTime |-> now]
          ELSE [currentIntent |-> intent, collectedSlots |-> newSlots, lastMessageTime |-> now],
      isIntentChange |->
          /\ state.currentIntent # Null
          /\ state.currentIntent # intent
          /\ intent \notin {"greet", "exit", "unknown"},
      previousIntent |-> state.currentIntent ]

\* getCollectedSlots returns a new object with the memory's entries; fresh
\* tells that it is not the memory's own object.
getCollectedSlots(state) == [fresh |-> TRUE, slots |-> state.collectedSlots]

\* ------------------------------------ GenericOrchestrator: conversations

StartConversation ==
    /\ IF currentConfig = NoConfig
       THEN /\ last' = [op |-> "startConversation", threw |-> TRUE]
            /\ UNCHANGED sessionVars
       ELSE /\ sessions' = Assign(sessions, nextSessionId, createSession(NameOf(currentConfig)))
            /\ currentSessionId' = nextSessionId
            /\ nextSessionId' = nextSessionId + 1
            /\ last' = [op |-> "startConversation", threw |-> FALSE, sid |-> nextSessionId]
    /\ UNCHANGED configVars
    /\ UNCHANGED asyncVars
    /\ UNCHANGED memory

deleteSession(store, sid) == [k \in (DOMAIN store) \ {sid} |-> store[k]]

EndConversation(sessionId) ==
    LET target == IF sessionId # NoSession THEN sessionId ELSE currentSessionId
    IN  /\ target # NoSession
        /\ sessions' = deleteSession(sessions, target)
        /\ currentSessionId' = IF target = currentSessionId THEN NoSession ELSE currentSessionId
        /\ last' = [op |-> "endConversation", sid |-> target]
        /\ UNCHANGED nextSessionId
        /\ UNCHANGED configVars
        /\ UNCHANGED asyncVars
        /\ UNCHANGED memory

\* (mutant) the turn recorded without its field map
TurnRecordWithoutSlots(userInput, detectedIntent, finalSlots, response, domain) ==
    [userInput |-> userInput, detectedIntent |-> detectedIntent,
     extractedSlots |-> EmptyMap, response |-> response, domain |-> domain]

\* The ConversationTurn processMessage records (its timestamp left out).
TurnRecord(userInput, detectedIntent, finalSlots, response, domain) ==
    [userInput |-> userInput, detectedIntent |-> detectedIntent,
     extractedSlots |-> finalSlots, response |-> response, domain |-> domain]

\* (mutant) a conversation started whenever the engine has no current
\* session, whatever id the caller passed
NeedsNewSessionWithoutCurrent(sessionId, current) == current = NoSession

\* sessionId || this.currentSessionId || this.startConversation(): a
\* session is created only when neither id is there.
NeedsNewSession(sessionId, current) == sessionId = NoSession /\ current = NoSession

\* processMessage(userInput, sessionId?) with the model's answers to the
\* classification and extraction prompts.
ProcessMessage(utterance, sessionId, answer) ==
    /\ IF currentConfig = NoConfig
       THEN /\ last' = [op |-> "processMessage", branch |-> "no_domain", sid |-> NoSession,
                        userInput |-> utterance.text, intent |-> Null, extracted |-> EmptyMap,
                        slots |-> EmptyMap, response |-> NoDomainResponse, invoked |-> Null,
                        calls |-> {}]
            /\ UNCHANGED sessionVars
            /\ UNCHANGED configVars
       ELSE \E needNew \in {NeedsNewSession(sessionId, currentSessionId)} :
            \E active \in {IF sessionId # NoSession THEN sessionId
                           ELSE IF currentSessionId # NoSession THEN currentSessionId
                           ELSE nextSessionId} :
            \E store0 \in {IF needNew
                           THEN Assign(sessions, nextSessionId, createSession(NameOf(currentConfig)))
                           ELSE sessions} :
            \E config \in {RuntimeConfigs[currentConfig]} :
            \E loaderCur \in {Deref(loaderCurrentConfig)} :
            \E threw \in {\/ DetectorAutoInitThrows(detector, loaderCur)
                          \/ ExtractorAutoInitThrows(extractor, loaderCur)} :
            \E det \in {DetectorAfterDetect(detector, loaderCur)} :
            \E ext \in {ExtractorAfterExtract(extractor, loaderCur)} :
            \E intent \in {detectIntent(det, answer)} :
            \E fresh \in {extractSlots(ext, intent, utterance.fields)} :
            \E merged \in {extractSlotsWithContext(fresh, getContext(store0, active),
                               getPreferences(store0, active),
                               getSlotCollectionState(store0, active))} :
            \E hsc \in {handleSlotCollection(config, store0, intent, merged, active)} :
            \E ex \in {executeSkill(config, skillHandlers, intent, hsc.finalSlots)} :
            \E response \in {IF hsc.needsMoreInfo THEN hsc.followUpMessage ELSE ex.response} :
            \E calls \in {ModelCalls(detector, extractor, loaderCur, intent)} :
                /\ currentSessionId' = IF needNew THEN nextSessionId ELSE currentSessionId
                /\ nextSessionId' = IF needNew THEN nextSessionId + 1 ELSE nextSessionId
                /\ UNCHANGED <<loadedConfigs, loaderCurrentConfig, currentConfig, skillHandlers>>
                /\ IF threw
                   THEN /\ sessions' = store0
                        /\ detector' = det
                        /\ UNCHANGED extractor
                        /\ last' = [op |-> "processMessage", branch |-> "error", sid |-> active,
                                    userInput |-> utterance.text, intent |-> Null, extracted |-> EmptyMap,
                                    slots |-> EmptyMap, response |-> ErrorResponse, invoked |-> Null,
                                    calls |-> calls]
                   ELSE /\ sessions' = addTurn(hsc.store, active,
                                               TurnRecord(utterance.text, intent, hsc.finalSlots,
                                                          response, config.metadata.name))
                        /\ detector' = det
                        /\ extractor' = ext
                        /\ last' = [op |-> "processMessage",
                                    branch |-> IF hsc.needsMoreInfo THEN "followup" ELSE "execute",
                                    sid |-> active, userInput |-> utterance.text, intent |-> intent,
                                    extracted |-> fresh, slots |-> hsc.finalSlots, response |-> response,
                                    invoked |-> IF hsc.needsMoreInfo THEN Null ELSE ex.invoked,
                                    calls |-> calls]
    /\ UNCHANGED asyncVars
    /\ UNCHANGED memory

NoDomainDetailedResponse ==
    [kind |-> "no_domain", text |-> "No domain configuration loaded.", arg |-> ""]

\* processMessageWithContext(userInput, sessionId?): the session id is
\* settled first, by startConversation when neither id is there, which
\* throws without a domain; then the no-domain result, or the turn as in
\* processMessage, returned with the context and preferences read at its
\* start.
ProcessMessageWithContext(utterance, sessionId, answer) ==
    /\ IF sessionId = NoSession /\ currentSessionId = NoSession /\ currentConfig = NoConfig
       THEN /\ last' = [op |-> "processMessageWithContext", given |-> sessionId, loaded |-> FALSE, threw |-> TRUE,
                        input |-> utterance.text]
            /\ UNCHANGED sessionVars
            /\ UNCHANGED configVars
       ELSE \E needNew \in {NeedsNewSession(sessionId, currentSessionId)} :
            \E active \in {IF sessionId # NoSession THEN sessionId
                           ELSE IF currentSessionId # NoSession THEN currentSessionId
                           ELSE nextSessionId} :
            IF currentConfig = NoConfig
            THEN /\ last' = [op |-> "processMessageWithContext", given |-> sessionId, loaded |-> FALSE, threw |-> FALSE,
                             input |-> utterance.text, intent |-> "error", slots |-> EmptyMap,
                             response |-> NoDomainDetailedResponse, domain |-> "none",
                             sid |-> active, context |-> Null, preferences |-> Null]
                 /\ UNCHANGED sessionVars
                 /\ UNCHANGED configVars
            ELSE \E config \in {RuntimeConfigs[currentConfig]} :
                 \E loaderCur \in {Deref(loaderCurrentConfig)} :
                 \E store0 \in {IF needNew
                                THEN Assign(sessions, nextSessionId, createSession(NameOf(currentConfig)))
                                ELSE sessions} :
                 \E det \in {DetectorAfterDetect(detector, loaderCur)} :
                 \E ext \in {ExtractorAfterExtract(extractor, loaderCur)} :
                 \E intent \in {detectIntent(det, answer)} :
                 \E context \in {getContext(store0, active)} :
                 \E preferences \in {getPreferences(store0, active)} :
                 \E merged \in {extractSlotsWithContext(extractSlots(ext, intent, utterance.fields),
                                    context, preferences, getSlotCollectionState(store0, active))} :
                 \E hsc \in {handleSlotCollection(config, store0, intent, merged, active)} :
                 \E response \in {IF hsc.needsMoreInfo THEN hsc.followUpMessage
                                  ELSE executeSkill(config, skillHandlers, intent, hsc.finalSlots).response} :
                    /\ currentSessionId' = IF needNew THEN nextSessionId ELSE currentSessionId
                    /\ nextSessionId' = IF needNew THEN nextSessionId + 1 ELSE nextSessionId
                    /\ UNCHANGED <<loadedConfigs, loaderCurrentConfig, currentConfig, skillHandlers>>
                    /\ detector' = det
                    /\ IF \/ DetectorAutoInitThrows(detector, loaderCur)
                          \/ ExtractorAutoInitThrows(extractor, loaderCur)
                       THEN /\ sessions' = store0
                            /\ UNCHANGED extractor
                            /\ last' = [op |-> "processMessageWithContext", given |-> sessionId, loaded |-> TRUE,
                                        threw |-> FALSE, input |-> utterance.text,
                                        intent |-> "error", slots |-> EmptyMap,
                                        response |-> ErrorResponse, domain |-> config.metadata.name,
                                        sid |-> active, context |-> context,
                                        preferences |-> preferences]
                       ELSE /\ sessions' = addTurn(hsc.store, active,
                                                   TurnRecord(utterance.text, intent, hsc.finalSlots,
                                                              response, config.metadata.name))
                            /\ extractor' = ext
                            /\ last' = [op |-> "processMessageWithContext", given |-> sessionId, loaded |-> TRUE,
                                        threw |-> FALSE, input |-> utterance.text,
                                        intent |-> intent, slots |-> hsc.finalSlots,
                                        response |-> response, domain |-> config.metadata.name,
                                        sid |-> active, context |-> context,
                                        preferences |-> preferences]
    /\ UNCHANGED asyncVars
    /\ UNCHANGED memory

\* (mutant) switchToSession without the lookup of the session
SwitchToSessionUnchecked(sessionId) ==
    /\ currentSessionId' = sessionId
    /\ last' = [op |-> "switchToSession", sid |-> sessionId, ret |-> TRUE]
    /\ UNCHANGED <<sessions, nextSessionId>>
    /\ UNCHANGED configVars
    /\ UNCHANGED asyncVars
    /\ UNCHANGED memory

\* switchToSession(sessionId)
SwitchToSession(sessionId) ==
    /\ IF Has(sessions, sessionId)
       THEN /\ currentSessionId' = sessionId
            /\ last' = [op |-> "switchToSession", sid |-> sessionId, ret |-> TRUE]
       ELSE /\ UNCHANGED currentSessionId
            /\ last' = [op |-> "switchToSession", sid |-> sessionId, ret |-> FALSE]
    /\ UNCHANGED <<sessions, nextSessionId>>
    /\ UNCHANGED configVars
    /\ UNCHANGED asyncVars
    /\ UNCHANGED memory

\* (mutant) the no-domain result reported as an unrecognised intent
NoDomainDetailedResultAsUnknown(userInput) ==
    [op |-> "processMessageDetailed", input |-> userInput,
     intent |-> "unknown", slots |-> EmptyMap,
     response |-> FallbackResponse, domain |-> "none",
     invoked |-> Null, calls |-> {}, threw |-> FALSE]

\* What processMessageDetailed returns when no domain is loaded.
NoDomainDetailedResult(userInput) ==
    [op |-> "processMessageDetailed", input |-> userInput,
     intent |-> "error", slots |-> EmptyMap,
     response |-> NoDomainDetailedResponse, domain |-> "none",
     invoked |-> Null, calls |-> {}, threw |-> FALSE]

\* processMessageDetailed(userInput): classification, extraction and the
\* skill, without a session; threw tells whether the call itself threw.
\* intent, fresh and ex are the code's consts, each bound once.
ProcessMessageDetailed(utterance, answer) ==
    /\ IF currentConfig = NoConfig
       THEN /\ last' = NoDomainDetailedResult(utterance.text)
            /\ UNCHANGED <<detector, extractor>>
       ELSE \E config \in {RuntimeConfigs[currentConfig]} :
            \E loaderCur \in {Deref(loaderCurrentConfig)} :
            \E threw \in {\/ DetectorAutoInitThrows(detector, loaderCur)
                          \/ ExtractorAutoInitThrows(extractor, loaderCur)} :
            \E det \in {DetectorAfterDetect(detector, loaderCur)} :
            \E ext \in {ExtractorAfterExtract(extractor, loaderCur)} :
                \E intent \in {detectIntent(det, answer)} :
                \E fresh \in {extractSlots(ext, intent, utterance.fields)} :
                \E ex \in {executeSkill(config, skillHandlers, intent, fresh)} :
                \E calls \in {ModelCalls(detector, extractor, loaderCur, intent)} :
                /\ detector' = det
                /\ IF threw
                   THEN /\ UNCHANGED extractor
                        /\ last' = [op |-> "processMessageDetailed", input |-> utterance.text,
                                    intent |-> "error", slots |-> EmptyMap,
                                    response |-> ErrorResponse, domain |-> config.metadata.name,
                                    invoked |-> Null, calls |-> calls, threw |-> FALSE]
                   ELSE /\ extractor' = ext
                        /\ last' = [op |-> "processMessageDetailed", input |-> utterance.text,
                                    intent |-> intent, slots |-> fresh,
                                    response |-> ex.response, domain |-> config.metadata.name,
                                    invoked |-> ex.invoked, calls |-> calls, threw |-> FALSE]
    /\ UNCHANGED <<loadedConfigs, loaderCurrentConfig, currentConfig, skillHandlers>>
    /\ UNCHANGED sessionVars
    /\ UNCHANGED asyncVars
    /\ UNCHANGED memory

\* ------------------------- GenericOrchestrator: processMessage in steps
\* One call of processMessage, suspended at its awaits of the
\* classification call, of the extraction call and of the skill handler;
\* other calls and operations run while it is suspended.

MaxInflight == 2

CallIds == 1..MaxInflight

FreeCallId == CHOOSE id \in CallIds : id \notin DOMAIN inflight

Drop(m, k) == [x \in (DOMAIN m) \ {k} |-> m[x]]

\* (mutant) processMessage without its catch clause
ReturnedUncaught(id, sid, threw, response, recorded) ==
    [ op |-> "processMessage:returned", id |-> id, sid |-> sid, rejected |-> threw,
      response |-> response, recorded |-> recorded ]

\* What a call resolves to: its reply, or the generic error reply when
\* something inside the try block threw.
Returned(id, sid, threw, response, recorded) ==
    [ op |-> "processMessage:returned", id |-> id, sid |-> sid, rejected |-> FALSE,
      response |-> IF threw THEN ErrorResponse ELSE response, recorded |-> recorded ]

\* processMessage up to the await of the classification call.
BeginMessage(utterance, sessionId) ==
    /\ Cardinality(DOMAIN inflight) < MaxInflight
    /\ IF currentConfig = NoConfig
       THEN /\ last' = Returned(0, NoSession, FALSE, NoDomainResponse, FALSE)
            /\ UNCHANGED <<sessionVars, detector, inflight>>
       ELSE \E needNew \in {NeedsNewSession(sessionId, currentSessionId)} :
            \E active \in {IF sessionId # NoSession THEN sessionId
                           ELSE IF currentSessionId # NoSession THEN currentSessionId
                           ELSE nextSessionId} :
            \E store0 \in {IF needNew
                           THEN Assign(sessions, nextSessionId, createSession(NameOf(currentConfig)))
                           ELSE sessions} :
            \E loaderCur \in {Deref(loaderCurrentConfig)} :
                /\ sessions' = store0
                /\ currentSessionId' = IF needNew THEN nextSessionId ELSE currentSessionId
                /\ nextSessionId' = IF needNew THEN nextSessionId + 1 ELSE nextSessionId
                /\ detector' = DetectorAfterDetect(detector, loaderCur)
                /\ IF DetectorAutoInitThrows(detector, loaderCur)
                   THEN /\ last' = Returned(0, active, TRUE, Null, FALSE)
                        /\ UNCHANGED inflight
                   ELSE /\ inflight' = Assign(inflight, FreeCallId,
                                [ pc |-> "classifying", sid |-> active, utterance |-> utterance,
                                  context |-> getContext(store0, active),
                                  preferences |-> getPreferences(store0, active),
                                  slotCollectionState |-> getSlotCollectionState(store0, active) ])
                        /\ last' = [op |-> "processMessage:begin", id |-> FreeCallId, sid |-> active]
    /\ UNCHANGED <<loadedConfigs, loaderCurrentConfig, currentConfig, skillHandlers, extractor, now, memory>>

\* The classification call resolves; processMessage runs up to the await
\* of the extraction call.
Classified(id, answer) ==
    /\ id \in DOMAIN inflight
    /\ inflight[id].pc = "classifying"
    /\ \E c \in {inflight[id]} :
       \E loaderCur \in {Deref(loaderCurrentConfig)} :
       \E intent \in {detectIntent(detector, answer)} :
          IF ExtractorAutoInitThrows(extractor, loaderCur)
          THEN /\ inflight' = Drop(inflight, id)
               /\ last' = Returned(id, c.sid, TRUE, Null, FALSE)
               /\ UNCHANGED extractor
          ELSE \E ext \in {ExtractorAfterExtract(extractor, loaderCur)} :
               /\ extractor' = ext
               /\ inflight' = [inflight EXCEPT ![id] =
                                  [ pc |-> "extracting", sid |-> c.sid, utterance |-> c.utterance,
                                    context |-> c.context, preferences |-> c.preferences,
                                    slotCollectionState |-> c.slotCollectionState,
                                    intent |-> intent,
                                    hasTemplate |-> intent \in ext.promptTemplates ]]
               /\ last' = [op |-> "processMessage:classified", id |-> id, sid |-> c.sid]
    /\ UNCHANGED <<loadedConfigs, loaderCurrentConfig, currentConfig, skillHandlers, detector, now, memory>>
    /\ UNCHANGED sessionVars

\* The fields of the extraction call, cleaned and merged with the
\* snapshot the call took of its session.
MergedSlots(c) ==
    extractSlotsWithContext(
        IF c.hasTemplate
        THEN validateAndCleanSlots(extractor.slotDefinitions, c.intent, c.utterance.fields)
        ELSE EmptyMap,
        c.context, c.preferences, c.slotCollectionState)

\* What processMessage does with the result of handleSlotCollection: the
\* follow-up turn, recorded at once, or the call of the skill.
AfterCollection(c, config, hsc) ==
    IF hsc.needsMoreInfo
    THEN [ store |-> addTurn(hsc.store, c.sid,
                             TurnRecord(c.utterance.text, c.intent, hsc.finalSlots,
                                        hsc.followUpMessage, config.metadata.name)),
           done |-> TRUE, slots |-> hsc.finalSlots, response |-> hsc.followUpMessage,
           recorded |-> Has(hsc.store, c.sid) ]
    ELSE [ store |-> hsc.store,
           done |-> FALSE, slots |-> hsc.finalSlots,
           response |-> executeSkill(config, skillHandlers, c.intent, hsc.finalSlots).response,
           recorded |-> FALSE ]

\* What processMessage does between the extraction result and its next
\* await, on a store: merge, collection, and the follow-up turn or the
\* call of the skill.
AfterExtraction(c, store) ==
    AfterCollection(c, RuntimeConfigs[currentConfig],
                    handleSlotCollection(RuntimeConfigs[currentConfig], store, c.intent,
                                         MergedSlots(c), c.sid))

\* The extraction call resolves; the fields are merged, the collection is
\* handled, and either the follow-up question is recorded and returned or
\* the skill handler is called and awaited.
Extracted(id) ==
    /\ id \in DOMAIN inflight
    /\ inflight[id].pc = "extracting"
    /\ \E c \in {inflight[id]} :
       \E config \in {RuntimeConfigs[currentConfig]} :
       \E merged \in {MergedSlots(c)} :
       \E hsc \in {handleSlotCollection(config, sessions, c.intent, merged, c.sid)} :
       \E after \in {AfterCollection(c, config, hsc)} :
          /\ sessions' = after.store
          /\ IF after.done
             THEN /\ inflight' = Drop(inflight, id)
                  /\ last' = Returned(id, c.sid, FALSE, after.response, after.recorded)
             ELSE /\ inflight' = [inflight EXCEPT ![id] =
                                     [ pc |-> "executing", sid |-> c.sid, utterance |-> c.utterance,
                                       context |-> c.context,
                                       intent |-> c.intent, slots |-> after.slots,
                                       response |-> after.response ]]
                  /\ last' = [op |-> "processMessage:extracted", id |-> id, sid |-> c.sid]
    /\ UNCHANGED <<currentSessionId, nextSessionId, now, memory>>
    /\ UNCHANGED configVars

\* The skill handler resolves; the turn is recorded and the reply returned.
Recorded(id) ==
    /\ id \in DOMAIN inflight
    /\ inflight[id].pc = "executing"
    /\ \E c \in {inflight[id]} :
          /\ sessions' = addTurn(sessions, c.sid,
                                 TurnRecord(c.utterance.text, c.intent, c.slots, c.response,
                                            RuntimeConfigs[currentConfig].metadata.name))
          /\ inflight' = Drop(inflight, id)
          /\ last' = Returned(id, c.sid, FALSE, c.response, Has(sessions, c.sid))
    /\ UNCHANGED <<currentSessionId, nextSessionId, now, memory>>
    /\ UNCHANGED configVars

\* --------------------------------- InMemoryConversationStore: operations

\* The intents a caller collects slots for, with their required slots.
CollectionRequests ==
    { [intent |-> "schedule_appointment", requiredSlots |-> <<"date", "time">>],
      [intent |-> "check_availability",   requiredSlots |-> <<"date">>],
      [intent |-> "loan_inquiry",         requiredSlots |-> <<"amount", "date">>] }

\* The maps a caller passes to updateSlotCollection: values, nulls, empty
\* strings, keys outside the required slots.
SlotUpdates ==
    { EmptyMap,
      [date |-> "monday"],
      [date |-> "", time |-> "evening"],
      [date |-> Null, time |-> ""],
      [time |-> "morning", amount |-> "5000"],
      [date |-> "friday", amount |-> Null] }

MaxCompletions == 1

\* The completion markers in a session's flow.
Completions(session) ==
    Len(FilterSeq(session.context.conversationFlow, {"slot_collection_complete"}))

CreateSession(domain) ==
    /\ sessions' = Assign(sessions, nextSessionId, createSession(domain))
    /\ nextSessionId' = nextSessionId + 1
    /\ last' = [op |-> "createSession", sid |-> nextSessionId]
    /\ UNCHANGED currentSessionId
    /\ UNCHANGED configVars
    /\ UNCHANGED asyncVars
    /\ UNCHANGED memory

\* startSlotCollection is called only when no collection is active.
StartSlotCollection(sid, request) ==
    /\ ~IsCollecting(getSlotCollectionState(sessions, sid))
    /\ sessions' = startSlotCollection(sessions, sid, request.intent, request.requiredSlots)
    /\ last' = [op |-> "startSlotCollection", sid |-> sid]
    /\ UNCHANGED <<currentSessionId, nextSessionId>>
    /\ UNCHANGED configVars
    /\ UNCHANGED asyncVars
    /\ UNCHANGED memory

UpdateSlotCollection(sid, slots) ==
    /\ sessions' = updateSlotCollection(sessions, sid, slots)
    /\ last' = [op |-> "updateSlotCollection", sid |-> sid, slots |-> slots, threw |-> FALSE]
    /\ UNCHANGED <<currentSessionId, nextSessionId>>
    /\ UNCHANGED configVars
    /\ UNCHANGED asyncVars
    /\ UNCHANGED memory

CompleteSlotCollection(sid) ==
    /\ sessions' = completeSlotCollection(sessions, sid)
    /\ last' = [op |-> "completeSlotCollection", sid |-> sid]
    /\ UNCHANGED <<currentSessionId, nextSessionId>>
    /\ UNCHANGED configVars
    /\ UNCHANGED asyncVars
    /\ UNCHANGED memory

\* The intents of successive turns, one name per position.
FlowIntents ==
    << "intent_0", "intent_1", "intent_2", "intent_3", "intent_4", "intent_5",
       "intent_6", "intent_7", "intent_8", "intent_9", "intent_10", "intent_11",
       "intent_12", "intent_13", "intent_14", "intent_15", "intent_16" >>

\* The turn a caller adds after n turns.
FlowTurn(n) ==
    [ userInput |-> "Intent", detectedIntent |-> FlowIntents[n + 1],
      extractedSlots |-> EmptyMap, response |-> "Response", domain |-> "appointments" ]

AddTurn(sid, turn) ==
    /\ sessions' = addTurn(sessions, sid, turn)
    /\ last' = [op |-> "addTurn", sid |-> sid]
    /\ UNCHANGED <<currentSessionId, nextSessionId>>
    /\ UNCHANGED configVars
    /\ UNCHANGED asyncVars
    /\ UNCHANGED memory

MaxClock == 3

\* Time passes.
Tick ==
    /\ now < MaxClock
    /\ now' = now + 1
    /\ last' = [op |-> "tick"]
    /\ UNCHANGED <<inflight, memory>>
    /\ UNCHANGED configVars
    /\ UNCHANGED sessionVars

\* The ages a caller passes to cleanupOldSessions, in ticks.
MaxAges == {0, 1, 2}

\* GenericOrchestrator.cleanupOldSessions(maxAgeMinutes)
CleanupOldSessions(maxAgeMinutes) ==
    /\ sessions' = cleanupOldSessions(sessions, maxAgeMinutes).store
    /\ last' = [op |-> "cleanupOldSessions", maxAge |-> maxAgeMinutes,
                ret |-> cleanupOldSessions(sessions, maxAgeMinutes).count]
    /\ UNCHANGED <<currentSessionId, nextSessionId>>
    /\ UNCHANGED configVars
    /\ UNCHANGED asyncVars
    /\ UNCHANGED memory

\* The intents a follow-up question is asked for: two with registered
\* phrasings, one without.
QuestionIntents == {"schedule_appointment", "balance_check", "update_profile"}

\* generateSlotFollowUpQuestion(slotName, intent), as handleSlotCollection
\* calls it for the first missing slot
GenerateSlotFollowUpQuestion(slotName, intent) ==
    /\ last' = [op |-> "generateSlotFollowUpQuestion", slotName |-> slotName, intent |-> intent,
                ret |-> generateSlotFollowUpQuestion(slotName, intent)]
    /\ UNCHANGED configVars
    /\ UNCHANGED sessionVars
    /\ UNCHANGED asyncVars
    /\ UNCHANGED memory

\* -------------------------------- detector and extractor, called directly

\* genericIntentDetector.detectIntent(text), with the model's answer
DetectIntent(answer) ==
    LET loaderCur == Deref(loaderCurrentConfig)
    IN  /\ IF DetectorAutoInitThrows(detector, loaderCur)
           THEN /\ last' = [op |-> "detectIntent", answer |-> answer, threw |-> TRUE, calls |-> {}]
                /\ UNCHANGED detector
           ELSE /\ detector' = DetectorAfterDetect(detector, loaderCur)
                /\ last' = [op |-> "detectIntent", answer |-> answer, threw |-> FALSE,
                            ret |-> detectIntent(DetectorAfterDetect(detector, loaderCur), answer),
                            calls |-> {"classify"}]
        /\ UNCHANGED <<loadedConfigs, loaderCurrentConfig, currentConfig, skillHandlers, extractor>>
        /\ UNCHANGED sessionVars
        /\ UNCHANGED asyncVars
        /\ UNCHANGED memory

\* genericSlotExtractor.extractSlots(intentName, userInput), with the JSON
\* object the model answers (EmptyMap when the call or the parse fails)
ExtractSlots(intentName, raw) ==
    LET loaderCur == Deref(loaderCurrentConfig)
        ext       == ExtractorAfterExtract(extractor, loaderCur)
    IN  /\ IF ExtractorAutoInitThrows(extractor, loaderCur)
           THEN /\ last' = [op |-> "extractSlots", intent |-> intentName, raw |-> raw,
                            threw |-> TRUE, calls |-> {}]
                /\ UNCHANGED extractor
           ELSE /\ extractor' = ext
                /\ last' = [op |-> "extractSlots", intent |-> intentName, raw |-> raw,
                            threw |-> FALSE, result |-> extractSlots(ext, intentName, raw),
                            calls |-> IF intentName \in ext.promptTemplates
                                      THEN {"extract"} ELSE {}]
        /\ UNCHANGED <<loadedConfigs, loaderCurrentConfig, currentConfig, skillHandlers, detector>>
        /\ UNCHANGED sessionVars
        /\ UNCHANGED asyncVars
        /\ UNCHANGED memory

\* What the extraction model may answer: each field absent or one of a few
\* values (a choice, a padded choice, other strings, empty, null).
FieldAnswers(k, values) == {EmptyMap} \cup {[x \in {k} |-> v] : v \in values}

RawAnswers ==
    { Spread(Spread(a, b), c) :
        a \in FieldAnswers("size", {"small", " large ", "Large", "medium", "", Null}),
        b \in FieldAnswers("quantity", {"5000", "lots"}),
        c \in FieldAnswers("code", {"A1", "B2", "?"}) }

PortConfigs == {"appointments", "orders"}

PortIntents == {"greet", "place_order", "schedule_appointment", "unknown"}

PortAnswers == {"greet", "place_order", "schedule_appointment", ModelError}

\* ------------------------------------------- validateConfig, called directly

\* The sections a caller's config object may hold or lack.
MetadataOptions ==
    { EmptyMap,
      [metadata |-> [name |-> "", version |-> "", description |-> ""]],
      [metadata |-> [name |-> "banking", version |-> "1.0.0", description |-> "banking"]] }

IntentsOptions ==
    { EmptyMap,
      [intents |-> <<>>],
      [intents |-> << [name |-> "greet", patterns |-> 1, description |-> "d", skillHandler |-> "greet"] >>],
      [intents |-> BankingConfig.intents] }

SlotsOptions ==
    { EmptyMap, [slots |-> <<>>], [slots |-> BankingConfig.slots] }

PromptsOptions ==
    { EmptyMap, [prompts |-> [intentDetection |-> ""]], [prompts |-> BankingConfig.prompts] }

SkillsOptions ==
    { EmptyMap, [skills |-> <<>>],
      [skills |-> << [name |-> "greet", handler |-> "fn"], [name |-> "loan_inquiry", handler |-> "fn"] >>] }

CandidateConfigs ==
    { Spread(Spread(Spread(Spread(m, i), s), p), k) :
        m \in MetadataOptions, i \in IntentsOptions, s \in SlotsOptions,
        p \in PromptsOptions, k \in SkillsOptions }

\* configLoader.validateConfig(config)
ValidateConfig(config) ==
    /\ last' = IF validateConfigThrows(config)
               THEN [op |-> "validateConfig", config |-> config, threw |-> TRUE]
               ELSE [op |-> "validateConfig", config |-> config, threw |-> FALSE,
                     result |-> validateConfig(config)]
    /\ UNCHANGED configVars
    /\ UNCHANGED sessionVars
    /\ UNCHANGED asyncVars
    /\ UNCHANGED memory

\* The caller's config object after validateConfig has returned: every
\* intent has a slots list and prompts has a slotExtraction map.
ConfigAfterValidation(config) ==
    [config EXCEPT !.intents = NormalizeIntents(config.intents),
                   !.prompts = [intentDetection |-> config.prompts.intentDetection,
                                slotExtraction |-> SlotExtractionOf(config.prompts)]]

\* The candidate configs, and those with an intent detection prompt but no
\* slotExtraction map.
ReloadConfigs ==
    CandidateConfigs \cup
    { Spread(Spread(Spread(Spread(m, i), s), [prompts |-> [intentDetection |-> Template]]), k) :
        m \in MetadataOptions, i \in IntentsOptions, s \in SlotsOptions, k \in SkillsOptions }

\* The caller loads the config object it has loaded before: the object is
\* validated as the first validation left it.
ValidateConfigAgain ==
    /\ last.op \in {"validateConfig", "validateConfigAgain"}
    /\ ~last.threw
    /\ \E first \in {last.config} :
       \E again \in {IF last.op = "validateConfig" THEN ConfigAfterValidation(last.config)
                     ELSE last.config} :
          last' = [op |-> "validateConfigAgain", config |-> again, threw |-> FALSE,
                   given |-> first, previous |-> last.result,
                   result |-> validateConfig(again)]
    /\ UNCHANGED configVars
    /\ UNCHANGED sessionVars
    /\ UNCHANGED asyncVars
    /\ UNCHANGED memory

\* What the assistant classifies and extracts from a message.
MemoryIntents == {"loan_inquiry", "schedule_appointment", "greet", "unknown"}

MemorySlots ==
    { EmptyMap, [amount |-> "25000"], [amount |-> "35000", purpose |-> "car"], [date |-> "monday"] }

\* conversationMemory.startOrContinueConversationWithFeedback(intent, newSlots);
\* startOrContinueConversation is the same call with the result dropped.
StartOrContinueConversation(intent, newSlots) ==
    /\ \E r \in {startOrContinueConversationWithFeedback(memory, intent, newSlots)} :
          /\ memory' = r.state
          /\ last' = [op |-> "startOrContinueConversation", intent |-> intent, newSlots |-> newSlots,
                      before |-> memory, at |-> now,
                      isIntentChange |-> r.isIntentChange, previousIntent |-> r.previousIntent]
    /\ UNCHANGED <<now, inflight>>
    /\ UNCHANGED configVars
    /\ UNCHANGED sessionVars

\* conversationMemory.getCollectedSlots()
GetCollectedSlots ==
    /\ last' = [op |-> "getCollectedSlots", ret |-> getCollectedSlots(memory)]
    /\ UNCHANGED <<now, inflight, memory>>
    /\ UNCHANGED configVars
    /\ UNCHANGED sessionVars

\* The caller writes a key of the object getCollectedSlots returned; the
\* memory changes with it only if the object is the memory's own.
WriteReturnedSlots(key, value) ==
    /\ last.op = "getCollectedSlots"
    /\ memory' = IF last.ret.fresh THEN memory
                 ELSE [memory EXCEPT !.collectedSlots = Assign(memory.collectedSlots, key, value)]
    /\ last' = [op |-> "writeReturnedSlots", before |-> memory,
                slots |-> Assign(last.ret.slots, key, value)]
    /\ UNCHANGED <<now, inflight>>
    /\ UNCHANGED configVars
    /\ UNCHANGED sessionVars

\* conversationMemory.clearConversation()
ClearConversation ==
    /\ memory' = NoConversation(now)
    /\ last' = [op |-> "clearConversation"]
    /\ UNCHANGED <<now, inflight>>
    /\ UNCHANGED configVars
    /\ UNCHANGED sessionVars

\* Time passes between two messages.
Elapse(minutes) ==
    /\ now' = now + minutes
    /\ last' = [op |-> "elapse", minutes |-> minutes]
    /\ UNCHANGED <<inflight, memory>>
    /\ UNCHANGED configVars
    /\ UNCHANGED sessionVars

\* ------------------------------------------------------ specifications

Init ==
    /\ loadedConfigs = EmptyMap
    /\ loaderCurrentConfig = NoConfig
    /\ currentConfig = NoConfig
    /\ skillHandlers = EmptyMap
    /\ currentSessionId = NoSession
    /\ detector = DetectorReset
    /\ extractor = ExtractorReset
    /\ sessions = EmptyMap
    /\ nextSessionId = 1
    /\ now = 0
    /\ inflight = EmptyMap
    /\ memory = NoConversation(0)
    /\ last = [op |-> "none"]

\* The loader and the engine's domain operations, over every config.
NextConfig ==
    \/ \E config \in AllConfigs : LoadConfig(config)
    \/ \E domainName \in DomainNames : SwitchToConfig(domainName)
    \/ \E config \in AllConfigs : LoadDomain(config)
    \/ \E domainName \in DomainNames : SwitchDomain(domainName)

SpecConfig == Init /\ [][NextConfig]_vars

\* The engine's public operations, over the dialogue configs.
Next ==
    \/ \E config \in DialogueConfigs : LoadDomain(config)
    \/ \E domainName \in {NameOf(c) : c \in DialogueConfigs} \cup {"nowhere"} : SwitchDomain(domainName)
    \/ nextSessionId <= MaxSessions /\ StartConversation
    \/ \E sessionId \in SessionArgs : EndConversation(sessionId)
    \/ \E utterance \in Utterances, sessionId \in SessionArgs, answer \in ModelAnswers :
            /\ TotalTurns < MaxTurns
            /\ (sessionId = NoSession /\ currentSessionId = NoSession) => nextSessionId <= MaxSessions
            /\ ProcessMessage(utterance, sessionId, answer)

Spec == Init /\ [][Next]_vars

MaxFillTurns == 3

\* The classifications of a conversation that pursues one request per domain.
FillAnswers == {"schedule_appointment", "loan_inquiry"}

\* One conversation in the current session, the domains loaded around it.
NextFill ==
    \/ \E config \in DialogueConfigs : LoadDomain(config)
    \/ \E utterance \in Utterances, answer \in FillAnswers :
            /\ TotalTurns < MaxFillTurns
            /\ ProcessMessage(utterance, NoSession, answer)

SpecFill == Init /\ [][NextFill]_vars

MaxEngineTurns == 1

\* What the classification model may answer in the engine specification.
EngineAnswers == {"greet", "report_issue", "loan_inquiry", ModelError}

EngineConfigs == {"appointments", "banking", "support", "malformedPrompt"}

\* The configs handed to the loader directly, behind the engine's back.
LoaderConfigs == {"banking"}

\* What the user says in the engine specification: nothing to extract, or a date.
EngineUtterances == {u \in Utterances : u.text \in {"hello", "on monday"}}

\* The engine with handlers that throw, with a loader that is also called
\* directly, and with both ways of processing a message; the conversation
\* runs in the current session.
NextEngine ==
    \/ \E config \in LoaderConfigs : LoadConfig(config)
    \/ \E config \in EngineConfigs : LoadDomain(config)
    \/ \E utterance \in EngineUtterances, answer \in EngineAnswers :
            /\ TotalTurns < MaxEngineTurns
            /\ ProcessMessage(utterance, NoSession, answer)
    \/ \E utterance \in EngineUtterances, answer \in EngineAnswers :
            ProcessMessageDetailed(utterance, answer)

SpecEngine == Init /\ [][NextEngine]_vars

\* The detector and the extractor called directly, bound by loadDomain or
\* binding themselves to the loader's current config.
NextPorts ==
    \/ \E config \in PortConfigs : LoadConfig(config)
    \/ \E config \in PortConfigs : LoadDomain(config)
    \/ \E answer \in PortAnswers : DetectIntent(answer)
    \/ \E intentName \in PortIntents, raw \in RawAnswers : ExtractSlots(intentName, raw)

SpecPorts == Init /\ [][NextPorts]_vars

\* The validator applied to config objects with sections present, empty
\* or missing.
NextValidate == \E config \in CandidateConfigs : ValidateConfig(config)

SpecValidate == Init /\ [][NextValidate]_vars

\* The session store, called directly.
NextStore ==
    \/ nextSessionId <= MaxSessions /\ CreateSession("appointments")
    \/ \E sid \in 1..MaxSessions, request \in CollectionRequests : StartSlotCollection(sid, request)
    \/ \E sid \in 1..MaxSessions, slots \in SlotUpdates : UpdateSlotCollection(sid, slots)
    \/ \E sid \in 1..MaxSessions :
            /\ Has(sessions, sid) => Completions(sessions[sid]) < MaxCompletions
            /\ CompleteSlotCollection(sid)

SpecStore == Init /\ [][NextStore]_vars

MaxFlowTurns == 15

TurnsIn(sid) == IF Has(sessions, sid) THEN Len(sessions[sid].turns) ELSE 0

\* The store called directly: turns added to sessions, collections completed.
NextFlow ==
    \/ nextSessionId <= MaxSessions /\ CreateSession("appointments")
    \/ \E sid \in 1..MaxSessions :
            /\ TurnsIn(sid) < MaxFlowTurns
            /\ AddTurn(sid, FlowTurn(TurnsIn(sid)))
    \/ \E sid \in 1..MaxSessions :
            /\ Has(sessions, sid) => Completions(sessions[sid]) < MaxCompletions
            /\ CompleteSlotCollection(sid)

SpecFlow == Init /\ [][NextFlow]_vars

MaxGcSessions == 2

MaxGcTurns == 1

\* The store called directly while time passes: sessions created and used
\* at different times, and cleaned up.
NextGc ==
    \/ nextSessionId <= MaxGcSessions /\ CreateSession("appointments")
    \/ Tick
    \/ \E sid \in 1..MaxGcSessions :
            /\ TurnsIn(sid) < MaxGcTurns
            /\ AddTurn(sid, FlowTurn(TurnsIn(sid)))
    \/ \E maxAgeMinutes \in MaxAges : CleanupOldSessions(maxAgeMinutes)

SpecGc == Init /\ [][NextGc]_vars

RaceUtterances == {u \in Utterances : u.text \in {"hello", "on monday"}}

RaceAnswers == {"greet", "schedule_appointment"}

\* Sessions of the engine that age and are cleaned up while messages for
\* them are processed.
NextRace ==
    \/ LoadDomain("appointments")
    \/ nextSessionId <= MaxGcSessions /\ StartConversation
    \/ Tick
    \/ \E maxAgeMinutes \in MaxAges : CleanupOldSessions(maxAgeMinutes)
    \/ \E utterance \in RaceUtterances, sessionId \in 1..MaxGcSessions :
            /\ TotalTurns + Cardinality(DOMAIN inflight) < MaxGcTurns
            /\ BeginMessage(utterance, sessionId)
    \/ \E id \in CallIds, answer \in RaceAnswers : Classified(id, answer)
    \/ \E id \in CallIds : Extracted(id)
    \/ \E id \in CallIds : Recorded(id)

SpecRace == Init /\ [][NextRace]_vars

MaxAsyncSessions == 2

MaxAsyncCalls == 2

AsyncConfigs == {"appointments", "malformedPrompt"}

AsyncUtterances == {u \in Utterances : u.text \in {"hello", "on monday"}}

AsyncAnswers == {"greet", "schedule_appointment"}

\* The calls begun and not failed at once: recorded as turns or in flight.
CallsBegun == TotalTurns + Cardinality(DOMAIN inflight)

\* Messages processed concurrently, for the current session and for
\* sessions named by the caller.
NextAsync ==
    \/ \E config \in AsyncConfigs : LoadDomain(config)
    \/ nextSessionId <= MaxAsyncSessions /\ StartConversation
    \/ \E utterance \in AsyncUtterances, sessionId \in 0..MaxAsyncSessions :
            /\ CallsBegun < MaxAsyncCalls
            /\ (sessionId = NoSession /\ currentSessionId = NoSession) =>
                    nextSessionId <= MaxAsyncSessions
            /\ BeginMessage(utterance, sessionId)
    \/ \E id \in CallIds, answer \in AsyncAnswers : Classified(id, answer)
    \/ \E id \in CallIds : Extracted(id)
    \/ \E id \in CallIds : Recorded(id)

SpecAsync == Init /\ [][NextAsync]_vars

MaxSharedCalls == 2

\* Messages processed concurrently without a session id: the calls share
\* the engine's current session.
NextShared ==
    \/ \E config \in AsyncConfigs : LoadDomain(config)
    \/ nextSessionId <= MaxAsyncSessions /\ StartConversation
    \/ \E utterance \in AsyncUtterances :
            /\ CallsBegun < MaxSharedCalls
            /\ currentSessionId = NoSession => nextSessionId <= MaxAsyncSessions
            /\ BeginMessage(utterance, NoSession)
    \/ \E id \in CallIds, answer \in AsyncAnswers : Classified(id, answer)
    \/ \E id \in CallIds : Extracted(id)
    \/ \E id \in CallIds : Recorded(id)

SpecShared == Init /\ [][NextShared]_vars

\* A suspended call is resumed once what it awaits has resolved: the
\* event loop runs every continuation that is ready.
Resume(id) ==
    \/ \E answer \in AsyncAnswers : Classified(id, answer)
    \/ Extracted(id)
    \/ Recorded(id)

SpecSharedFair == SpecShared /\ \A id \in CallIds : WF_vars(Resume(id))

\* The follow-up question, asked once for a slot name within the bound.
NextQuestion ==
    /\ last.op = "none"
    /\ \E parts \in SlotNameParts, intent \in QuestionIntents :
           GenerateSlotFollowUpQuestion(SlotNameOf(parts), intent)

SpecQuestion == Init /\ [][NextQuestion]_vars

\* A config object validated, then validated again as often as the caller
\* reloads it.
NextReload ==
    \/ last.op = "none" /\ \E config \in ReloadConfigs : ValidateConfig(config)
    \/ ValidateConfigAgain

SpecReload == Init /\ [][NextReload]_vars

MaxMemoryClock == 6

\* The single-conversation memory as the assistant's loop and its tests
\* use it, with minutes passing between messages.
NextMemory ==
    \/ \E intent \in MemoryIntents, newSlots \in MemorySlots :
            StartOrContinueConversation(intent, newSlots)
    \/ GetCollectedSlots
    \/ \E key \in {"amount", "note"} : WriteReturnedSlots(key, "changed")
    \/ ClearConversation
    \/ \E minutes \in {1, 4} : now + minutes <= MaxMemoryClock /\ Elapse(minutes)

SpecMemory == Init /\ [][NextMemory]_vars

MaxContextSessions == 2

MaxContextTurns == 1

\* processMessageWithContext with and without a domain, a session id and
\* a current session; sessions are also created in the store directly,
\* which needs no domain.
NextContext ==
    \/ LoadDomain("appointments")
    \/ nextSessionId <= MaxContextSessions /\ StartConversation
    \/ nextSessionId <= MaxContextSessions /\ CreateSession("appointments")
    \/ \E sessionId \in 1..MaxContextSessions : SwitchToSession(sessionId)
    \/ \E utterance \in EngineUtterances, sessionId \in 0..MaxContextSessions,
          answer \in {"greet", "schedule_appointment"} :
            /\ TotalTurns < MaxContextTurns
            /\ (sessionId = NoSession /\ currentSessionId = NoSession) =>
                    nextSessionId <= MaxContextSessions
            /\ ProcessMessageWithContext(utterance, sessionId, answer)

SpecContext == Init /\ [][NextContext]_vars

MaxDomainCalls == 1

\* One message in flight at a time, the domain loaded or switched while
\* the call is suspended.
NextDomains ==
    \/ \E config \in DialogueConfigs : LoadDomain(config)
    \/ \E domainName \in {NameOf(c) : c \in DialogueConfigs} : SwitchDomain(domainName)
    \/ \E utterance \in AsyncUtterances :
            /\ CallsBegun < MaxDomainCalls
            /\ nextSessionId <= MaxAsyncSessions
            /\ BeginMessage(utterance, NoSession)
    \/ \E id \in CallIds, answer \in FillAnswers : Classified(id, answer)
    \/ \E id \in CallIds : Extracted(id)
    \/ \E id \in CallIds : Recorded(id)

SpecDomains == Init /\ [][NextDomains]_vars

MaxLiveSessions == 2

MaxLiveTurns == 1

\* The session operations of the engine, the store's cleanup and the
\* clock, with messages for the current session and for named sessions.
NextSessions ==
    \/ LoadDomain("appointments")
    \/ nextSessionId <= MaxLiveSessions /\ StartConversation
    \/ \E sessionId \in 1..MaxLiveSessions : SwitchToSession(sessionId)
    \/ \E sessionId \in 0..MaxLiveSessions : EndConversation(sessionId)
    \/ Tick
    \/ \E maxAgeMinutes \in MaxAges : CleanupOldSessions(maxAgeMinutes)
    \/ \E utterance \in AsyncUtterances, sessionId \in 0..MaxLiveSessions,
          answer \in AsyncAnswers :
            /\ TotalTurns < MaxLiveTurns
            /\ (sessionId = NoSession /\ currentSessionId = NoSession) =>
                    nextSessionId <= MaxLiveSessions
            /\ ProcessMessage(utterance, sessionId, answer)

SpecSessions == Init /\ [][NextSessions]_vars

\* ---------------------------------------------------------------- claims

\* The value a map holds under a key; Absent stands for no key.
Absent == "<absent>"

ValueIn(m, k) == IF Has(m, k) THEN m[k] ELSE Absent

\* The slots the active domain declares for an intent, <<>> if it does not
\* define the intent.
DeclaredSlots(config, intent) ==
    IF \E i \in DOMAIN DomainConfigs[config].intents : DomainConfigs[config].intents[i].name = intent
    THEN SlotsOf(DomainConfigs[config].intents[
             CHOOSE i \in DOMAIN DomainConfigs[config].intents :
                 /\ DomainConfigs[config].intents[i].name = intent
                 /\ \A j \in 1..(i - 1) : DomainConfigs[config].intents[j].name # intent])
    ELSE <<>>

\* The positions of the required slots that have no non-empty value in a map.
Unfilled(requiredSlots, slots) ==
    {i \in DOMAIN requiredSlots : ~Filled(slots, requiredSlots[i])}

Min(S) == CHOOSE x \in S : \A y \in S : x <= y

\* A processMessage call has just returned through the follow-up branch or
\* the skill-execution branch.
TurnDone == last.op = "processMessage" /\ last.branch \in {"followup", "execute"}

\* C1: after a turn whose intent the active domain defines with required
\* slots, if some required slot has no non-empty value in the merged map
\* then no handler was invoked and the reply is the follow-up question for
\* the first such slot in declaration order; a handler was invoked only if
\* every required slot has a non-empty value.
C1_FollowUpForFirstMissingSlot ==
    TurnDone =>
        LET requiredSlots == DeclaredSlots(currentConfig, last.intent)
            unfilled      == Unfilled(requiredSlots, last.slots)
        IN  Len(requiredSlots) > 0 =>
                /\ unfilled # {} =>
                       /\ last.invoked = Null
                       /\ last.response =
                              generateSlotFollowUpQuestion(requiredSlots[Min(unfilled)], last.intent)
                /\ last.invoked # Null => unfilled = {}

\* C1 witness: check_availability with an empty date in the merged map: the
\* date is asked for and no handler runs.
C1_Witness ==
    /\ TurnDone
    /\ last.intent = "check_availability"
    /\ Has(last.slots, "date") /\ last.slots["date"] = ""
    /\ last.invoked = Null
    /\ last.response.kind = "followup"

\* The config of the dialogue domains that carries a name.
ConfigNamed(name) == CHOOSE c \in DialogueConfigs : NameOf(c) = name

RequiredOf(turn) == DeclaredSlots(ConfigNamed(turn.domain), turn.detectedIntent)

\* The slot a follow-up turn asked for.
AskedSlot(turn) ==
    CHOOSE r \in Range(RequiredOf(turn)) :
        generateSlotFollowUpQuestion(r, turn.detectedIntent) = turn.response

\* turns[i..j] are follow-up turns of one intent under one domain, each
\* but the first giving a non-empty value for the slot asked just before.
FollowUpRun(turns, i, j) ==
    /\ \A m \in i..j :
          /\ turns[m].response.kind = "followup"
          /\ turns[m].detectedIntent = turns[i].detectedIntent
          /\ turns[m].domain = turns[i].domain
    /\ \A m \in i..(j - 1) : Filled(turns[m + 1].extractedSlots, AskedSlot(turns[m]))

\* C2 (as claimed): the skill is invoked after at most |R| turns, so the
\* follow-up turns before it are fewer than |R|.
C2_InvokedWithinRTurns ==
    \A sid \in DOMAIN sessions :
        \A i \in DOMAIN sessions[sid].turns : \A j \in i..Len(sessions[sid].turns) :
            FollowUpRun(sessions[sid].turns, i, j) =>
                (j - i + 1) < Len(RequiredOf(sessions[sid].turns[i]))

\* C2 (amended): the follow-up turns of such a fill are at most |R|, so the
\* skill is invoked within |R| + 1 turns; and the turn that ends the fill
\* invokes the intent's handler with every slot of R non-empty in the final
\* map, clears the collection and appends the completion marker.
C2_InvokedWithinRPlusOneTurns ==
    /\ \A sid \in DOMAIN sessions :
          \A i \in DOMAIN sessions[sid].turns : \A j \in i..Len(sessions[sid].turns) :
              FollowUpRun(sessions[sid].turns, i, j) =>
                  (j - i + 1) <= Len(RequiredOf(sessions[sid].turns[i]))
    /\ (TurnDone /\ last.branch = "execute" /\ Has(sessions, last.sid)) =>
          LET turns == sessions[last.sid].turns
              n     == Len(turns)
              ctx   == sessions[last.sid].context
          IN  (/\ n >= 2
               /\ FollowUpRun(turns, n - 1, n - 1)
               /\ turns[n].detectedIntent = turns[n - 1].detectedIntent
               /\ turns[n].domain = turns[n - 1].domain) =>
                  /\ last.invoked = turns[n].detectedIntent
                  /\ \A r \in Range(RequiredOf(turns[n])) : Filled(turns[n].extractedSlots, r)
                  /\ ~IsCollecting(ctx.slotCollectionInProgress)
                  /\ Len(ctx.conversationFlow) >= 2
                  /\ ctx.conversationFlow[Len(ctx.conversationFlow) - 1] = "slot_collection_complete"

\* C2 witness: schedule_appointment, asked for its date, then for its
\* time, runs its handler in the third turn with the collection completed.
C2_Witness ==
    /\ TurnDone /\ last.branch = "execute" /\ last.invoked = "schedule_appointment"
    /\ Has(sessions, last.sid)
    /\ Len(sessions[last.sid].turns) = 3
    /\ FollowUpRun(sessions[last.sid].turns, 1, 2)
    /\ AskedSlot(sessions[last.sid].turns[1]) = "date"
    /\ AskedSlot(sessions[last.sid].turns[2]) = "time"
    /\ ~IsCollecting(sessions[last.sid].context.slotCollectionInProgress)

\* A collection's missingSlots is its requiredSlots without the keys of
\* collectedSlots, in order, and no collected value is null or empty.
CollectionConsistent(c) ==
    /\ c.missingSlots =
           FilterSeq(c.requiredSlots, {k \in Range(c.requiredSlots) : ~Has(c.collectedSlots, k)})
    /\ \A k \in DOMAIN c.collectedSlots : c.collectedSlots[k] \notin {Null, ""}

\* C3: after every startSlotCollection and updateSlotCollection call each
\* collection in progress is consistent; updateSlotCollection does not
\* throw, and for a key it is given with a null or empty value it leaves
\* collectedSlots as it was.
C3_CollectionStateConsistent ==
    [][/\ \A sid \in DOMAIN sessions' :
              IsCollecting(sessions'[sid].context.slotCollectionInProgress) =>
                  CollectionConsistent(sessions'[sid].context.slotCollectionInProgress)
       /\ (last'.op = "updateSlotCollection"
              /\ IsCollecting(getSlotCollectionState(sessions, last'.sid))) =>
             /\ ~last'.threw
             /\ IsCollecting(getSlotCollectionState(sessions', last'.sid))
             /\ \A k \in DOMAIN last'.slots :
                    last'.slots[k] \in {Null, ""} =>
                        ValueIn(getSlotCollectionState(sessions', last'.sid).collectedSlots, k) =
                            ValueIn(getSlotCollectionState(sessions, last'.sid).collectedSlots, k)
      ]_vars

\* C3 witness: an update carrying an empty date and a time has just been
\* stored for a collection of date and time: the time is collected, the
\* date is still missing.
C3_Witness ==
    /\ last.op = "updateSlotCollection"
    /\ last.slots = [date |-> "", time |-> "evening"]
    /\ IsCollecting(getSlotCollectionState(sessions, last.sid))
    /\ getSlotCollectionState(sessions, last.sid).requiredSlots = <<"date", "time">>
    /\ getSlotCollectionState(sessions, last.sid).collectedSlots = [time |-> "evening"]
    /\ getSlotCollectionState(sessions, last.sid).missingSlots = <<"date">>

\* C4 (as claimed): no session has a slot collection in progress whose
\* missingSlots is empty.
C4_NoCollectionWithNothingMissing ==
    \A sid \in DOMAIN sessions :
        IsCollecting(sessions[sid].context.slotCollectionInProgress) =>
            Len(sessions[sid].context.slotCollectionInProgress.missingSlots) > 0

\* What the claimed precedence gives slot k: the fresh value over the
\* collected one, then for a missing time or date the preference, then for
\* a slot still missing the entity mention.
BaseValue(k, fresh, collected) ==
    IF Has(fresh, k) THEN fresh[k] ELSE IF Has(collected, k) THEN collected[k] ELSE Absent

PreferenceValue(k, preferences) ==
    IF k = "time" THEN preferences.preferredTimeOfDay
    ELSE IF k = "date" /\ Len(preferences.preferredDays) > 0 THEN preferences.preferredDays[1]
    ELSE Null

MergedValue(k, fresh, collected, preferences, entityMentions) ==
    LET base == BaseValue(k, fresh, collected)
        pref == IF base \in {Absent, Null, ""} /\ Truthy(PreferenceValue(k, preferences))
                THEN PreferenceValue(k, preferences) ELSE base
    IN  IF pref \in {Absent, Null, ""} /\ Filled(entityMentions, k)
        THEN entityMentions[k] ELSE pref

SlotNames == {"date", "time", "amount"}

\* The session a turn reads: the stored one, or a fresh one when the store
\* holds none under the id.
SessionRead(store, sid) ==
    IF Has(store, sid) THEN store[sid] ELSE createSession("")

CollectedOf(session) ==
    IF IsCollecting(session.context.slotCollectionInProgress)
    THEN session.context.slotCollectionInProgress.collectedSlots ELSE EmptyMap

\* C5: the merged map of a turn gives every slot name the value of the
\* claimed precedence, read from the session as it was before the turn; a
\* fresh non-empty value is the merged value.
C5_MergePrecedence ==
    [][(last'.op = "processMessage" /\ last'.branch \in {"followup", "execute"}) =>
          LET session == SessionRead(sessions, last'.sid)
          IN  /\ DOMAIN last'.slots \subseteq SlotNames
              /\ \A k \in SlotNames :
                    /\ ValueIn(last'.slots, k) =
                           MergedValue(k, last'.extracted, CollectedOf(session),
                                       session.preferences, session.context.entityMentions)
                    /\ Filled(last'.extracted, k) => ValueIn(last'.slots, k) = last'.extracted[k]
      ]_vars

\* C5 witness: a turn gave a fresh date over a different collected one and
\* took its time from the collected slots.
C5_Witness ==
    /\ TurnDone
    /\ Has(sessions, last.sid) /\ Len(sessions[last.sid].turns) = 2
    /\ sessions[last.sid].turns[1].extractedSlots = [date |-> "monday"]
    /\ sessions[last.sid].turns[1].response.kind = "followup"
    /\ last.extracted = [date |-> "friday", time |-> "evening"]
    /\ last.slots = [date |-> "friday", time |-> "evening"]

\* The turn a processMessage call records.
TurnOf(call, domain) ==
    [userInput |-> call.userInput, detectedIntent |-> call.intent,
     extractedSlots |-> call.slots, response |-> call.response, domain |-> domain]

IsPrefix(a, b) == Len(a) <= Len(b) /\ SubSeq(b, 1, Len(a)) = a

\* C6: a processMessage call that replies through the follow-up or the
\* execution branch on a session the store holds appends exactly one turn
\* to it: the input, the intent, the final merged map, the reply and the
\* active domain's name; and no step changes, reorders or removes a turn
\* of a session it leaves in the store.
C6_OneTurnAppended ==
    [][/\ (last'.op = "processMessage" /\ last'.branch \in {"followup", "execute"}
              /\ Has(sessions', last'.sid)) =>
             sessions'[last'.sid].turns =
                 Append(SessionRead(sessions, last'.sid).turns,
                        TurnOf(last', NameOf(currentConfig)))
       /\ \A sid \in (DOMAIN sessions) \cap (DOMAIN sessions') :
              IsPrefix(sessions[sid].turns, sessions'[sid].turns)
      ]_vars

\* C6 witness: a session holds two turns, the second recorded under another
\* domain than the first.
C6_Witness ==
    /\ TurnDone
    /\ Has(sessions, last.sid) /\ Len(sessions[last.sid].turns) = 2
    /\ sessions[last.sid].turns[1].domain # sessions[last.sid].turns[2].domain
    /\ sessions[last.sid].turns[2] = TurnOf(last, NameOf(currentConfig))

\* The handler names a config's intents use and its skills map lacks.
DanglingHandlers(config) ==
    {DomainConfigs[config].intents[i].skillHandler : i \in DOMAIN DomainConfigs[config].intents}
        \ SkillNames(DomainConfigs[config].skills)

ErrorsOf(config) == RuntimeConfigs[config].validationResult.errors

\* C7: a config in which an intent's skillHandler is absent from the skills
\* map is invalid, with one error naming each such handler; loading it by
\* loadConfig or loadDomain changes neither the loader's current config nor
\* the engine's active config, and loadDomain returns false.
C7_MissingHandlerNeverActivated ==
    [][\A config \in AllConfigs :
          (DanglingHandlers(config) # {} /\ (LoadConfig(config) \/ LoadDomain(config)))
              => /\ ~RuntimeConfigs[config].isValid
                 /\ \A h \in DanglingHandlers(config) :
                        \E i \in DOMAIN ErrorsOf(config) :
                            /\ ErrorsOf(config)[i][1] = "references non-existent skill"
                            /\ ErrorsOf(config)[i][3] = h
                 /\ loaderCurrentConfig' = loaderCurrentConfig
                 /\ currentConfig' = currentConfig
                 /\ (LoadDomain(config) => last'.ret = FALSE)]_vars

\* C7 witness: loadDomain has just refused the clinic config, whose
\* symptom_check handler is missing, while appointments stays active.
C7_Witness ==
    /\ last.op = "loadDomain" /\ last.config = "missingSkill" /\ last.ret = FALSE
    /\ DanglingHandlers("missingSkill") = {"symptom_check"}
    /\ Has(loadedConfigs, "clinic")
    /\ currentConfig = "appointments"
    /\ loaderCurrentConfig = "appointments"

\* C8: the loader's current config and the engine's active config are each
\* null or a config whose isValid is true.
C8_CurrentConfigsValid ==
    /\ loaderCurrentConfig # NoConfig => RuntimeConfigs[loaderCurrentConfig].isValid
    /\ currentConfig # NoConfig => RuntimeConfigs[currentConfig].isValid

\* C8 witness: an invalid config is stored under "banking", a switch to it
\* has just been refused, and both current configs are a valid one.
C8_Witness ==
    /\ last.op = "switchDomain" /\ last.name = "banking" /\ last.ret = FALSE
    /\ Has(loadedConfigs, "banking") /\ ~RuntimeConfigs[loadedConfigs["banking"]].isValid
    /\ currentConfig # NoConfig /\ loaderCurrentConfig # NoConfig

\* C9: a loadDomain of a config that fails validation returns false and
\* leaves the active config, the detector and extractor bindings and the
\* skill-handler table as they were.
C9_InvalidLoadKeepsEngine ==
    [][\A config \in AllConfigs :
          (~RuntimeConfigs[config].isValid /\ LoadDomain(config))
              => /\ last'.ret = FALSE
                 /\ currentConfig' = currentConfig
                 /\ detector' = detector
                 /\ extractor' = extractor
                 /\ skillHandlers' = skillHandlers]_vars

\* C9 witness: an invalid config named "appointments" has just been refused
\* and the engine still runs the banking domain it had loaded before.
C9_Witness ==
    /\ last.op = "loadDomain" /\ last.config = "invalidOther" /\ last.ret = FALSE
    /\ currentConfig = "banking"
    /\ detector = DetectorInitialized(RuntimeConfigs["banking"])
    /\ extractor = ExtractorInitialized(RuntimeConfigs["banking"])
    /\ skillHandlers = extractSkillHandlers(RuntimeConfigs["banking"])

\* C10: a loadDomain or switchDomain call leaves the session store as it
\* was: the same session ids, each with its domain tag, turns, context,
\* preferences and slot collection.
C10_DomainChangeKeepsSessions ==
    [][last'.op \in {"loadDomain", "switchDomain"} => sessions' = sessions]_vars

\* C10 witness: the engine has switched to banking while a session created
\* under appointments holds a turn and a slot collection in progress.
C10_Witness ==
    /\ last.op = "switchDomain" /\ last.ret = TRUE /\ currentConfig = "banking"
    /\ \E sid \in DOMAIN sessions :
          /\ sessions[sid].domain = "appointments"
          /\ Len(sessions[sid].turns) > 0
          /\ IsCollecting(sessions[sid].context.slotCollectionInProgress)

\* C11: with no domain loaded in the engine, processMessage and
\* processMessageDetailed return (they do not throw) the plain-text 'no
\* domain configuration loaded' reply, the detailed variant with intent
\* 'error'; the call creates no session, records no turn, and makes no
\* classification or extraction call (the detector and the extractor are
\* not even bound).
C11_NoDomainPlainReply ==
    [][(last'.op \in {"processMessage", "processMessageDetailed"} /\ currentConfig = NoConfig) =>
           /\ last'.response.kind = "no_domain"
           /\ last'.response \in {NoDomainResponse, NoDomainDetailedResponse}
           /\ last'.op = "processMessageDetailed" => (last'.intent = "error" /\ ~last'.threw)
           /\ last'.calls = {}
           /\ last'.invoked = Null
           /\ sessions' = sessions
           /\ currentSessionId' = currentSessionId
           /\ nextSessionId' = nextSessionId
           /\ detector' = detector
           /\ extractor' = extractor]_vars

\* A detailed call answered 'no domain' while the loader does hold a valid
\* current config the detector could have bound itself to.
C11_Witness ==
    /\ last.op = "processMessageDetailed"
    /\ currentConfig = NoConfig
    /\ loaderCurrentConfig # NoConfig
    /\ last.intent = "error"
    /\ last.response = NoDomainDetailedResponse

\* The reply is a string the call returned, not an exception.
EngineCall == last.op \in {"processMessage", "processMessageDetailed"}

\* The classified intent of the last call has no entry in the intent list
\* of the engine's current config.
UnlistedIntent ==
    /\ EngineCall
    /\ currentConfig # NoConfig
    /\ last.intent \notin {Null, "error"}
    /\ last.intent \notin IntentNames(RuntimeConfigs[currentConfig].intents)

\* C12: when the classified intent has no entry in the active domain's
\* intent list, the reply is what the handler registered under 'unknown'
\* returns if one is registered and returns, and the static fallback string
\* if none is registered or if it throws; no slot is asked for and no
\* other handler is invoked.
C12_UnknownIntentReply ==
    UnlistedIntent =>
        /\ last.response =
               IF Has(skillHandlers, "unknown") /\ skillHandlers["unknown"] = "fn"
               THEN SkillResponse("unknown") ELSE FallbackResponse
        /\ last.invoked = IF Has(skillHandlers, "unknown") THEN "unknown" ELSE Null
        /\ last.op = "processMessage" => last.branch = "execute"

\* An unlisted intent answered with the fallback because the registered
\* 'unknown' handler threw.
C12_Witness ==
    /\ UnlistedIntent
    /\ last.op = "processMessage"
    /\ Has(skillHandlers, "unknown")
    /\ skillHandlers["unknown"] = "throws"
    /\ last.response = FallbackResponse

\* The last processMessage call invoked the handler bound to its (listed)
\* intent and that handler threw.
BoundHandlerThrew ==
    /\ last.op = "processMessage"
    /\ last.branch = "execute"
    /\ currentConfig # NoConfig
    /\ last.intent \in IntentNames(RuntimeConfigs[currentConfig].intents)
    /\ last.invoked # Null
    /\ skillHandlers[last.invoked] # "fn"

\* C13: when the skill handler bound to the intent throws during
\* processMessage, the call returns the generic 'please try again' reply,
\* and the session's newest turn is this turn, recorded with that reply as
\* its response.
C13_HandlerThrowIsAbsorbed ==
    BoundHandlerThrew =>
        /\ last.response = SkillErrorResponse
        /\ Has(sessions, last.sid)
        /\ Len(sessions[last.sid].turns) > 0
        /\ LET turn == sessions[last.sid].turns[Len(sessions[last.sid].turns)]
           IN  /\ turn.response = SkillErrorResponse
               /\ turn.userInput = last.userInput
               /\ turn.detectedIntent = last.intent
               /\ turn.extractedSlots = last.slots

\* report_issue, its date given, reached its handler, which threw.
C13_Witness ==
    /\ BoundHandlerThrew
    /\ last.intent = "report_issue"
    /\ Filled(last.slots, "date")
    /\ last.response = SkillErrorResponse
    /\ Len(sessions[last.sid].turns) = 1

\* The ids a caller may pass that name no session of the store.
UnknownIds == {sid \in SessionArgs \ {NoSession} : ~Has(sessions, sid)}

\* The kinds of reply processMessage returns as a string.
Replies == {"skill", "followup", "fallback", "unavailable", "skill_error", "error", "no_domain"}

\* C14: on an id that names no session of the store (never created, or
\* ended), getContext, getPreferences and getSlotCollectionState return
\* null and addTurn changes nothing; a processMessage call with such an id
\* returns a reply, and leaves the store as it was: no session is created
\* and no slot collection is started.
C14_UnknownSessionIsHarmless ==
    [][\A sid \in UnknownIds :
           /\ getContext(sessions, sid) = [none |-> TRUE]
           /\ getPreferences(sessions, sid) = [none |-> TRUE]
           /\ getSlotCollectionState(sessions, sid) = NoCollection
           /\ \A utterance \in Utterances, answer \in ModelAnswers :
                  ProcessMessage(utterance, sid, answer) =>
                      /\ last'.response.kind \in Replies
                      /\ sessions' = sessions
                      /\ nextSessionId' = nextSessionId
                      /\ currentSessionId' = currentSessionId
                      /\ addTurn(sessions, sid,
                                 TurnRecord(last'.userInput, last'.intent, last'.slots,
                                            last'.response, "any")) = sessions
                      /\ ~IsCollecting(getSlotCollectionState(sessions', sid))]_vars

\* A message sent to a session that was ended: the engine asked for the
\* missing slot, and the store still does not hold the session.
C14_Witness ==
    /\ last.op = "processMessage"
    /\ last.branch = "followup"
    /\ last.sid # NoSession
    /\ last.sid < nextSessionId
    /\ ~Has(sessions, last.sid)

\* C15: validateConfig never throws: for every config object, sections
\* missing or empty included, it returns a result with isValid, errors and
\* warnings.
C15_ValidateConfigNeverThrows ==
    last.op = "validateConfig" =>
        /\ ~last.threw
        /\ DOMAIN last.result = {"isValid", "errors", "warnings"}
        /\ last.result.isValid = (Len(last.result.errors) = 0)

\* The last step was a load, through the loader or through the engine.
LoadStep == last'.op \in {"loadConfig", "loadDomain"}

\* C16: switchToConfig(name) returns a boolean; it returns true and makes
\* the stored config current exactly when a config is stored under name
\* and that config, which is the one of the most recent load under the
\* name, is valid; otherwise it returns false and the current config is
\* unchanged.  (Every load stores its config under its name, valid or not,
\* and nothing else writes the store.)
C16_SwitchToConfigByLastLoad ==
    [][/\ LoadStep => loadedConfigs' = Assign(loadedConfigs, last'.name, last'.config)
       /\ ~LoadStep => loadedConfigs' = loadedConfigs
       /\ last'.op = "switchToConfig" =>
              LET ok == /\ Has(loadedConfigs, last'.name)
                        /\ validateConfig(DomainConfigs[loadedConfigs[last'.name]]).isValid
              IN  /\ last'.ret = ok
                  /\ loaderCurrentConfig' =
                         IF ok THEN loadedConfigs[last'.name] ELSE loaderCurrentConfig]_vars

\* switchToConfig refused a name whose latest load was invalid, while the
\* current config is still the valid one loaded under that name before.
C16_Witness ==
    /\ last.op = "switchToConfig"
    /\ ~last.ret
    /\ Has(loadedConfigs, last.name)
    /\ loaderCurrentConfig # NoConfig
    /\ NameOf(loaderCurrentConfig) = last.name
    /\ loadedConfigs[last.name] # loaderCurrentConfig

\* The last call was extractSlots and it returned.
ExtractCall == last.op = "extractSlots" /\ ~last.threw

\* The slot definitions the extractor holds for the intent of the last call.
DefsOfCall == SlotDefsFor(extractor.slotDefinitions, last.intent)

ListDefs == {i \in DOMAIN DefsOfCall : DefsOfCall[i].type = "list"}

ValidatedDefs ==
    {i \in DOMAIN DefsOfCall : DefsOfCall[i].type # "list" /\ DefsOfCall[i].validate # "none"}

Without(m, k) == [x \in (DOMAIN m) \ {k} |-> m[x]]

\* Every field but k is in the result exactly as it is when k was not
\* extracted at all.
OthersUntouched(k) ==
    \A j \in (DOMAIN last.raw \cup DOMAIN last.result) \ {k} :
        ValueIn(last.result, j) =
            ValueIn(extractSlots(extractor, last.intent, Without(last.raw, k)), j)

\* C17 (as stated): a field extracted for a list slot is in the result
\* only if the extracted value equals one of the declared choices exactly;
\* any other value is dropped, and the other fields are untouched.
C17_ListFieldOnlyExactChoice ==
    ExtractCall =>
        \A i \in ListDefs :
            LET k == DefsOfCall[i].name
            IN  /\ Has(last.result, k) =>
                       /\ Has(last.raw, k)
                       /\ last.raw[k] \in Range(DefsOfCall[i].choices)
                       /\ last.result[k] = last.raw[k]
                /\ OthersUntouched(k)

\* C17 (amended): a field extracted for a list slot is in the result only
\* if the extracted value, trimmed of surrounding whitespace, equals one
\* of the declared choices exactly, and the result then holds that trimmed
\* string; any other value is dropped, and the other fields are untouched.
C17_ListFieldOnlyTrimmedChoice ==
    ExtractCall =>
        \A i \in ListDefs :
            LET k == DefsOfCall[i].name
            IN  /\ Has(last.result, k) =>
                       /\ Has(last.raw, k)
                       /\ Trim(last.raw[k]) \in Range(DefsOfCall[i].choices)
                       /\ last.result[k] = Trim(last.raw[k])
                /\ OthersUntouched(k)

\* A value that is no choice was dropped while the two other fields of the
\* turn were kept.
C17_Witness ==
    /\ ExtractCall
    /\ last.intent = "place_order"
    /\ Has(last.raw, "size")
    /\ last.raw["size"] = "medium"
    /\ ~Has(last.result, "size")
    /\ Has(last.result, "quantity")
    /\ Has(last.result, "code")

\* The fields of the last call whose custom validator did not return true.
RejectedDefs ==
    {i \in ValidatedDefs :
        /\ Has(last.raw, DefsOfCall[i].name)
        /\ Truthy(last.raw[DefsOfCall[i].name])
        /\ ValidatorOutcome(DefsOfCall[i].validate, Trim(last.raw[DefsOfCall[i].name])) # "true"}

\* C18: when a slot's custom validator returns anything but true, or
\* throws, for a candidate value, extractSlots returns (it does not
\* throw), the result lacks that field, and every other field is in the
\* result exactly as without the rejected one.
C18_RejectedFieldOnlyDropped ==
    (last.op = "extractSlots" /\ last.intent \in extractor.promptTemplates) =>
        /\ ~last.threw
        /\ \A i \in RejectedDefs :
               /\ ~Has(last.result, DefsOfCall[i].name)
               /\ OthersUntouched(DefsOfCall[i].name)

\* The validator of code threw and the one of quantity returned a message:
\* both fields are gone, the size is still there.
C18_Witness ==
    /\ ExtractCall
    /\ last.intent = "place_order"
    /\ Has(last.raw, "code") /\ last.raw["code"] = "?"
    /\ Has(last.raw, "quantity") /\ last.raw["quantity"] = "lots"
    /\ DOMAIN last.result = {"size"}
    /\ last.result["size"] = "small"

\* C19: detectIntent never throws and returns a name of the intent list
\* the detector is bound to, or the fallback 'unknown'; this includes a
\* call made before the detector was initialised.
C19_DetectIntentNeverThrows ==
    last.op = "detectIntent" =>
        /\ ~last.threw
        /\ last.ret \in Range(detector.validIntents) \cup {"unknown"}

\* The current configs the extractor is bound to in which the intent of
\* the last call is listed and declares no slots.
SlotlessIn ==
    {c \in {currentConfig, loaderCurrentConfig} \ {NoConfig} :
        /\ RuntimeConfigs[c].isValid
        /\ extractor = ExtractorInitialized(RuntimeConfigs[c])
        /\ last.intent \in IntentNames(RuntimeConfigs[c].intents)
        /\ Len(RequiredSlots(RuntimeConfigs[c], last.intent)) = 0}

\* C20: extraction for an intent that declares no slots in the config the
\* extractor is bound to yields an empty field map and makes no call to
\* the extraction model, whatever prompt templates and slot groups that
\* config holds.
C20_NoSlotsNoExtraction ==
    (last.op = "extractSlots" /\ SlotlessIn # {}) =>
        /\ ~last.threw
        /\ last.result = EmptyMap
        /\ last.calls = {}

FlowOf(session) == session.context.conversationFlow

\* What a session's flow has been fed by createSession and addTurn.
FedIntents(session) ==
    <<"session_start">> \o [i \in 1..Len(session.turns) |-> session.turns[i].detectedIntent]

Marked(session) == "slot_collection_complete" \in Range(FlowOf(session))

\* C21: a flow that addTurn alone has filled has at most 10 entries, and
\* they are the most recent intents in their order, the oldest evicted
\* first.
C21_FlowHoldsMostRecentIntents ==
    \A sid \in DOMAIN sessions :
        LET flow == FlowOf(sessions[sid])
            fed  == FedIntents(sessions[sid])
        IN  ~Marked(sessions[sid]) =>
                /\ Len(flow) <= 10
                /\ Len(flow) = (IF Len(fed) < 10 THEN Len(fed) ELSE 10)
                /\ \A i \in 1..Len(flow) : flow[i] = fed[Len(fed) - Len(flow) + i]

\* Fifteen turns on a new session: the flow starts with the sixth turn's intent.
C21_Witness ==
    \E sid \in DOMAIN sessions :
        /\ Len(sessions[sid].turns) = 15
        /\ ~Marked(sessions[sid])
        /\ Len(FlowOf(sessions[sid])) = 10
        /\ FlowOf(sessions[sid])[1] = sessions[sid].turns[6].detectedIntent

\* C22: in every state of every session, also after completeSlotCollection
\* has appended its marker, the flow has at most 10 entries.
C22_FlowCappedInEveryState ==
    \A sid \in DOMAIN sessions : Len(FlowOf(sessions[sid])) <= 10

\* The sessions cleanupOldSessions(maxAge) has to delete: those last used
\* before now - maxAge.
OlderThan(maxAge) == {sid \in DOMAIN sessions : sessions[sid].lastActivity < now - maxAge}

\* C23: cleanupOldSessions(maxAgeMinutes) removes exactly the sessions
\* whose lastActivity is older than the cutoff, returns their number, and
\* leaves every other session present and unchanged.
C23_CleanupRemovesExactlyTheOld ==
    [][ last'.op = "cleanupOldSessions" =>
            /\ DOMAIN sessions' = (DOMAIN sessions) \ OlderThan(last'.maxAge)
            /\ last'.ret = Cardinality(OlderThan(last'.maxAge))
            /\ \A sid \in DOMAIN sessions' : sessions'[sid] = sessions[sid] ]_vars

\* A cleanup that removed one session and kept another, used at the cutoff.
C23_Witness ==
    /\ last.op = "cleanupOldSessions"
    /\ last.ret = 1
    /\ \E sid \in DOMAIN sessions : sessions[sid].lastActivity = now - last.maxAge

Suspended(id) == id \in DOMAIN inflight /\ inflight[id].pc \in {"classifying", "extracting"}

\* C24: cleanupOldSessions never deletes the session of a processMessage
\* call that is suspended on its classification or extraction call, and
\* a call that found its session when it began finds it when it records
\* its turn.
C24_CleanupSparesSessionsMidTurn ==
    [][ /\ last'.op = "cleanupOldSessions" =>
              \A id \in CallIds :
                  (Suspended(id) /\ inflight[id].sid \in DOMAIN sessions) =>
                      inflight[id].sid \in DOMAIN sessions'
        /\ (/\ last'.op = "processMessage:returned"
            /\ last'.id \in DOMAIN inflight
            /\ ~Has(inflight[last'.id].context, "none")
            /\ last'.response # ErrorResponse) =>
              last'.recorded ]_vars

Isolated(store, sid) == [x \in (DOMAIN store) \cap {sid} |-> store[x]]

MessageSteps ==
    { "processMessage:begin", "processMessage:classified", "processMessage:extracted",
      "processMessage:returned" }

\* The turn the last step recorded in a session.
LastTurnOf(session) == session.turns[Len(session.turns)]

\* C25: a step of a processMessage call for session A leaves every other
\* session as it was, and what it reads, writes to A and replies is what
\* it would be with no other session in the store.
C25_SessionsIndependent ==
    [][ last'.op \in MessageSteps =>
          /\ \A B \in (DOMAIN sessions) \ {last'.sid} :
                B \in DOMAIN sessions' /\ sessions'[B] = sessions[B]
          /\ last'.op = "processMessage:begin" =>
                LET c   == inflight'[last'.id]
                    iso == Isolated(sessions', c.sid)
                IN  /\ c.context = getContext(iso, c.sid)
                    /\ c.preferences = getPreferences(iso, c.sid)
                    /\ c.slotCollectionState = getSlotCollectionState(iso, c.sid)
          /\ (last'.id \in DOMAIN inflight /\ inflight[last'.id].pc = "extracting") =>
                LET c   == inflight[last'.id]
                    iso == AfterExtraction(c, Isolated(sessions, c.sid))
                IN  /\ ValueIn(sessions', c.sid) = ValueIn(iso.store, c.sid)
                    /\ last'.op = "processMessage:returned" =>
                          last'.response = iso.response /\ last'.recorded = iso.recorded
                    /\ last'.op = "processMessage:extracted" =>
                          /\ inflight'[last'.id].response = iso.response
                          /\ inflight'[last'.id].slots = iso.slots
          /\ (last'.id \in DOMAIN inflight /\ inflight[last'.id].pc = "executing") =>
                LET c == inflight[last'.id]
                IN  /\ last'.response = c.response
                    /\ last'.recorded =>
                          ValueIn(sessions', c.sid) =
                              ValueIn(addTurn(Isolated(sessions, c.sid), c.sid,
                                              LastTurnOf(sessions'[c.sid])), c.sid) ]_vars

\* A call for one session has returned with its turn recorded while a call
\* for another session, past its extraction, is still in flight.
C25_Witness ==
    /\ last.op = "processMessage:returned"
    /\ last.recorded
    /\ \E id \in DOMAIN inflight :
          /\ inflight[id].sid # last.sid
          /\ inflight[id].sid \in DOMAIN sessions
          /\ inflight[id].pc = "executing"

\* C26: processMessage calls made concurrently without a session id, so
\* sharing the engine's current session, never reject, and every call in
\* flight comes to return a reply, however their steps interleave.
C26_ConcurrentCallsAllComplete ==
    /\ [](last.op = "processMessage:returned" => ~last.rejected)
    /\ \A id \in CallIds :
          (id \in DOMAIN inflight) ~> (last.op = "processMessage:returned" /\ last.id = id)

\* A call has returned while another call for the same current session is
\* still in flight.
C26_Witness ==
    /\ last.op = "processMessage:returned"
    /\ last.sid = currentSessionId
    /\ \E id \in DOMAIN inflight : inflight[id].sid = last.sid

\* The collection a store holds for a session; none for a session it does
\* not hold.
CollectionIn(store, sid) ==
    IF Has(store, sid) THEN store[sid].context.slotCollectionInProgress ELSE NoCollection

CompletionsIn(store, sid) == IF Has(store, sid) THEN Completions(store[sid]) ELSE 0

\* A processMessage turn was just taken for an intent that needs no slots.
TurnWithoutSlots ==
    /\ last.op = "processMessage"
    /\ last.branch \in {"execute", "followup"}
    /\ RequiredSlots(RuntimeConfigs[currentConfig], last.intent) = <<>>

\* C27: a processMessage turn whose intent declares no required slots, or
\* is not an intent of the active domain, neither starts, updates nor
\* completes a collection: every session's collection is what it was
\* before the turn, and no completion marker is added.
C27_NoCollectionSideEffects ==
    [][TurnWithoutSlots' =>
          /\ last'.branch = "execute"
          /\ \A sid \in DOMAIN sessions' :
                /\ CollectionIn(sessions', sid) = CollectionIn(sessions, sid)
                /\ CompletionsIn(sessions', sid) = CompletionsIn(sessions, sid)]_vars

\* Such a turn was taken in a session with a collection in progress: for
\* an intent the domain declares without slots.
C27_Witness ==
    /\ TurnWithoutSlots
    /\ FindIntent(RuntimeConfigs[currentConfig], last.intent) # 0
    /\ IsCollecting(CollectionIn(sessions, last.sid))

\* ... and for an intent the domain does not define.
C27_WitnessUndefined ==
    /\ TurnWithoutSlots
    /\ FindIntent(RuntimeConfigs[currentConfig], last.intent) = 0
    /\ IsCollecting(CollectionIn(sessions, last.sid))

Spaces(n) == [i \in 1..n |-> " "]

\* The slot name with every underscore replaced by a space.
WithSpaces(slotName) ==
    JoinName(SplitName(slotName), Spaces(Len(SplitName(slotName)) - 1))

Registered(intent, slotName) ==
    Has(FollowUpQuestions, intent) /\ Has(FollowUpQuestions[intent], slotName)

\* C28: the follow-up question is the phrasing registered for the intent
\* and slot when there is one, and otherwise "Could you please provide
\* your <slot name>?" with every underscore of the slot name replaced by a
\* space, however many it has.
C28_FallbackReplacesEveryUnderscore ==
    last.op = "generateSlotFollowUpQuestion" =>
        last.ret = IF Registered(last.intent, last.slotName)
                   THEN [kind |-> "followup", text |-> FollowUpQuestions[last.intent][last.slotName],
                         arg |-> ""]
                   ELSE [kind |-> "followup", text |-> "Could you please provide your <slot>?",
                         arg |-> WithSpaces(last.slotName)]

\* The same for slot names with at most one underscore.
C28_OneUnderscoreReplaced ==
    (last.op = "generateSlotFollowUpQuestion" /\ Len(SplitName(last.slotName)) <= 2) =>
        last.ret = IF Registered(last.intent, last.slotName)
                   THEN [kind |-> "followup", text |-> FollowUpQuestions[last.intent][last.slotName],
                         arg |-> ""]
                   ELSE [kind |-> "followup", text |-> "Could you please provide your <slot>?",
                         arg |-> WithSpaces(last.slotName)]

\* What processMessage(userInput), called without a session id in the
\* current state, yields when nothing throws: the intent, the final
\* fields, the reply and the handler invoked, computed as ProcessMessage
\* computes them.
ProcessMessageYields(utterance, answer) ==
    LET needNew == NeedsNewSession(NoSession, currentSessionId)
        active  == IF currentSessionId # NoSession THEN currentSessionId ELSE nextSessionId
        store0  == IF needNew
                   THEN Assign(sessions, nextSessionId, createSession(NameOf(currentConfig)))
                   ELSE sessions
        config  == RuntimeConfigs[currentConfig]
        loaderCur == Deref(loaderCurrentConfig)
        intent  == detectIntent(DetectorAfterDetect(detector, loaderCur), answer)
        fresh   == extractSlots(ExtractorAfterExtract(extractor, loaderCur), intent, utterance.fields)
        merged  == extractSlotsWithContext(fresh, getContext(store0, active),
                       getPreferences(store0, active), getSlotCollectionState(store0, active))
        hsc     == handleSlotCollection(config, store0, intent, merged, active)
        ex      == executeSkill(config, skillHandlers, intent, hsc.finalSlots)
    IN  [ intent   |-> intent,
          slots    |-> hsc.finalSlots,
          response |-> IF hsc.needsMoreInfo THEN hsc.followUpMessage ELSE ex.response,
          invoked  |-> IF hsc.needsMoreInfo THEN Null ELSE ex.invoked ]

\* The utterances and answers a processMessageDetailed step may have been
\* called with: the text it echoes and the intent it detected.
DetailedInputs ==
    { <<u, a>> \in EngineUtterances \X EngineAnswers :
        /\ u.text = last'.input
        /\ detectIntent(DetectorAfterDetect(detector, Deref(loaderCurrentConfig)), a) = last'.intent }

\* A processMessageDetailed step with a domain loaded and nothing thrown.
DetailedStep ==
    /\ last'.op = "processMessageDetailed"
    /\ currentConfig # NoConfig
    /\ last'.intent # "error"

\* ProcessMessageYields is what the action ProcessMessage records.
ProcessMessageYieldsAsRecorded ==
    [][(last'.op = "processMessage" /\ last'.branch \in {"execute", "followup"}) =>
          \E u \in EngineUtterances, a \in EngineAnswers :
              /\ u.text = last'.userInput
              /\ ProcessMessageYields(u, a) =
                    [ intent |-> last'.intent, slots |-> last'.slots,
                      response |-> last'.response, invoked |-> last'.invoked ]]_vars

\* C29: with a domain loaded, processMessageDetailed yields the intent,
\* the final fields and the reply that processMessage yields from the same
\* state for the same text, and like it calls no handler while a required
\* slot of the intent is missing.
C29_DetailedAgreesWithProcessMessage ==
    [][DetailedStep =>
          \A in \in DetailedInputs :
              /\ last'.intent = ProcessMessageYields(in[1], in[2]).intent
              /\ last'.slots = ProcessMessageYields(in[1], in[2]).slots
              /\ last'.response = ProcessMessageYields(in[1], in[2]).response
              /\ last'.invoked = ProcessMessageYields(in[1], in[2]).invoked]_vars

\* The two agree on the intent.
C29_SameIntent ==
    [][DetailedStep =>
          \A in \in DetailedInputs :
              last'.intent = ProcessMessageYields(in[1], in[2]).intent]_vars

\* The names of the SlotDefinitions a config holds in the slot group of an
\* intent.
DefinedSlots(config, intentName) ==
    IF ~Has(config, "slots") THEN {}
    ELSE UNION { {config.slots[g].defs[d].name : d \in DOMAIN config.slots[g].defs} :
                      g \in {g \in DOMAIN config.slots : config.slots[g].intentName = intentName} }

\* Every intent's required slot names are defined in the intent's group.
RequiredSlotsDefined(config) ==
    \A i \in DOMAIN config.intents :
        Range(SlotsOf(config.intents[i])) \subseteq DefinedSlots(config, config.intents[i].name)

\* C30: a config that validateConfig reports valid has, for every slot
\* name an intent lists as required, a SlotDefinition of that name in the
\* slot group of that intent.
C30_ValidConfigDefinesRequiredSlots ==
    (last.op = "validateConfig" /\ ~last.threw /\ last.result.isValid) =>
        RequiredSlotsDefined(last.config)

SlotGroupsOf(config) == IF Has(config, "slots") THEN config.slots ELSE <<>>

\* C31: a config that passed validation, loaded again as the first load
\* left it, passes again with the same errors and warnings, the same
\* intent names and the same slot groups.
C31_ValidationRepeatable ==
    (last.op = "validateConfigAgain" /\ last.previous.isValid) =>
        /\ last.result = last.previous
        /\ IntentNames(last.config.intents) = IntentNames(last.given.intents)
        /\ SlotGroupsOf(last.config) = SlotGroupsOf(last.given)

\* A valid config whose object lacked an intent's slots list and the
\* slotExtraction map was validated again.
C31_Witness ==
    /\ last.op = "validateConfigAgain"
    /\ last.previous.isValid
    /\ \E i \in DOMAIN last.given.intents : ~Has(last.given.intents[i], "slots")
    /\ ~Has(last.given.prompts, "slotExtraction")

\* The map old overlaid by new: the keys of both, new's value where both
\* have one.
Overlays(result, old, new) ==
    /\ DOMAIN result = DOMAIN old \cup DOMAIN new
    /\ \A k \in DOMAIN new : result[k] = new[k]
    /\ \A k \in DOMAIN old \ DOMAIN new : result[k] = old[k]

\* C32: startOrContinueConversation for the current intent less than five
\* minutes after the last message overlays the collected slots by the new
\* ones; otherwise the intent becomes the current one and the collected
\* slots are exactly the new ones. getCollectedSlots returns the collected
\* slots in an object whose change leaves the memory as it was.
C32_MemoryContinuesOrStartsFresh ==
    [][/\ last'.op = "startOrContinueConversation" =>
             IF memory.currentIntent = last'.intent /\ now - memory.lastMessageTime < 5
             THEN /\ memory'.currentIntent = last'.intent
                  /\ Overlays(memory'.collectedSlots, memory.collectedSlots, last'.newSlots)
             ELSE /\ memory'.currentIntent = last'.intent
                  /\ memory'.collectedSlots = last'.newSlots
       /\ last'.op = "getCollectedSlots" => last'.ret.slots = memory.collectedSlots
       /\ last'.op = "writeReturnedSlots" =>
             /\ memory' = memory
             /\ last'.slots # memory'.collectedSlots]_vars

\* A conversation was continued four minutes after its last message with a
\* slot given again and a new one.
C32_Witness ==
    /\ last.op = "startOrContinueConversation"
    /\ last.before.currentIntent = last.intent
    /\ last.at - last.before.lastMessageTime = 4
    /\ \E k \in DOMAIN last.newSlots :
          /\ k \in DOMAIN last.before.collectedSlots
          /\ last.before.collectedSlots[k] # last.newSlots[k]
    /\ DOMAIN last.newSlots # DOMAIN last.before.collectedSlots

\* The same intent arrived five minutes or more after the last message.
C32_WitnessTimeout ==
    /\ last.op = "startOrContinueConversation"
    /\ last.before.currentIntent = last.intent
    /\ last.at - last.before.lastMessageTime >= 5
    /\ last.before.collectedSlots # EmptyMap

\* Every slot collected before the step is still collected after it.
KeepsCollectedSlots ==
    \A k \in DOMAIN memory.collectedSlots : k \in DOMAIN memory'.collectedSlots

\* C40 as stated: a call that reports no intent change, less than five
\* minutes after the last message, keeps every slot collected before it.
C40_SlotsKeptWithoutIntentChange ==
    [][(/\ last'.op = "startOrContinueConversation"
        /\ ~last'.isIntentChange
        /\ now - memory.lastMessageTime < 5) => KeepsCollectedSlots]_vars

\* C40 as amended: a call for the memory's current intent, less than five
\* minutes after the last message, keeps every slot collected before it;
\* slots are discarded only by a call for another intent or after the
\* timeout.
C40_SlotsKeptForCurrentIntent ==
    [][last'.op = "startOrContinueConversation" =>
          /\ (memory.currentIntent = last'.intent /\ now - memory.lastMessageTime < 5)
                => KeepsCollectedSlots
          /\ ~KeepsCollectedSlots
                => (memory.currentIntent # last'.intent \/ now - memory.lastMessageTime >= 5)]_vars

\* A call for the current intent within the timeout brought none of the
\* slots collected before, and they are all still there.
C40_Witness ==
    /\ last.op = "startOrContinueConversation"
    /\ last.before.currentIntent = last.intent
    /\ last.at - last.before.lastMessageTime < 5
    /\ last.before.collectedSlots # EmptyMap
    /\ DOMAIN last.newSlots \cap DOMAIN last.before.collectedSlots = {}
    /\ DOMAIN last.before.collectedSlots \subseteq DOMAIN memory.collectedSlots

\* C33: with no domain loaded, processMessageWithContext does not throw
\* and returns its error result, whatever session id it is given and
\* whether or not the engine has a current session.
C33_NoDomainResultNeverThrows ==
    (last.op = "processMessageWithContext" /\ ~last.loaded) =>
        /\ ~last.threw
        /\ last.intent = "error"
        /\ last.response = NoDomainDetailedResponse

\* The same when a session id is given or the engine has a current
\* session.
C33_NoDomainResultWithSession ==
    [][(/\ last'.op = "processMessageWithContext"
        /\ ~last'.loaded
        /\ last'.given # NoSession \/ currentSessionId # NoSession) =>
          /\ ~last'.threw
          /\ last'.intent = "error"
          /\ last'.response = NoDomainDetailedResponse]_vars

\* C34: a processMessage turn completes a slot collection only when its
\* intent is the collection's targetIntent, and after a turn that asks a
\* follow-up question the collection's targetIntent and requiredSlots are
\* those of the intent the question is asked for.
C34_CollectionBelongsToTurnIntent ==
    [][(last'.op = "processMessage" /\ last'.branch \in {"followup", "execute"}) =>
         LET before == getSlotCollectionState(sessions, last'.sid)
             after  == getSlotCollectionState(sessions', last'.sid)
         IN  /\ (IsCollecting(before) /\ ~IsCollecting(after)) =>
                    before.targetIntent = last'.intent
             /\ (last'.branch = "followup" /\ IsCollecting(after)) =>
                    /\ after.targetIntent = last'.intent
                    /\ after.requiredSlots =
                         RequiredSlots(RuntimeConfigs[currentConfig], last'.intent)]_vars

\* The first half alone: a collection is completed only by a turn of its
\* own intent.
C34_CompletedByOwnIntent ==
    [][(last'.op = "processMessage" /\ last'.branch \in {"followup", "execute"}) =>
         LET before == getSlotCollectionState(sessions, last'.sid)
             after  == getSlotCollectionState(sessions', last'.sid)
         IN  (IsCollecting(before) /\ ~IsCollecting(after)) =>
                    before.targetIntent = last'.intent]_vars

\* The second half alone: the collection describes the intent asked for.
C34_CollectionDescribesAskedIntent ==
    [][(last'.op = "processMessage" /\ last'.branch = "followup") =>
         LET after == getSlotCollectionState(sessions', last'.sid)
         IN  IsCollecting(after) =>
                /\ after.targetIntent = last'.intent
                /\ after.requiredSlots =
                     RequiredSlots(RuntimeConfigs[currentConfig], last'.intent)]_vars

\* The slot a follow-up reply asks for: the first required slot of the
\* turn's intent that the turn's fields leave missing.
SlotAskedFor ==
    NextSlot(MissingSlots(RequiredSlots(RuntimeConfigs[currentConfig], last.intent), last.slots))

\* C35: after a processMessage turn on an existing session that replies
\* with a follow-up question for a slot, a collection is in progress for
\* the session and isWaitingForSlot(sessionId, slot) is true.
C35_FollowUpAgreesWithStore ==
    (last.op = "processMessage" /\ last.branch = "followup" /\ Has(sessions, last.sid)) =>
        /\ IsCollecting(getSlotCollectionState(sessions, last.sid))
        /\ isWaitingForSlot(sessions, last.sid, SlotAskedFor)

\* The first half alone: a collection is in progress after the question.
C35_FollowUpHasCollection ==
    (last.op = "processMessage" /\ last.branch = "followup" /\ Has(sessions, last.sid)) =>
        IsCollecting(getSlotCollectionState(sessions, last.sid))

\* The same for the turns that find no collection of another intent in
\* their session.
C35_FollowUpAgreesForOwnCollection ==
    [][(/\ last'.op = "processMessage"
        /\ last'.branch = "followup"
        /\ Has(sessions', last'.sid)
        /\ LET before == getSlotCollectionState(sessions, last'.sid)
           IN  IsCollecting(before) => before.targetIntent = last'.intent) =>
          isWaitingForSlot(sessions', last'.sid,
              NextSlot(MissingSlots(RequiredSlots(RuntimeConfigs[currentConfig], last'.intent),
                                    last'.slots)))]_vars

\* C36: a loadDomain or switchDomain that fails leaves the engine's
\* active config, the loader's current config, the detector and extractor
\* bindings and the skill-handler table as they were.
C36_FailedActivationChangesNothing ==
    [][(last'.op \in {"loadDomain", "switchDomain"} /\ ~last'.ret) =>
         UNCHANGED <<currentConfig, loaderCurrentConfig, detector, extractor, skillHandlers>>]_vars

\* The part of it about a config that validation rejects: the engine's
\* own state is as it was.
C36_RejectedConfigLeavesEngine ==
    [][(last'.op = "loadDomain" /\ ~last'.ret /\ ~RuntimeConfigs[last'.config].isValid) =>
         UNCHANGED <<currentConfig, detector, extractor, skillHandlers>>]_vars

\* What one domain makes of a turn: its intent is one of the domain's (or
\* unknown), and its reply is a follow-up question for a slot the domain
\* requires for the intent or what the domain's handler table answers.
TurnOfOneDomain(turn) ==
    LET config == RuntimeConfigs[ConfigNamed(turn.domain)]
    IN  /\ turn.detectedIntent = "unknown" \/ FindIntent(config, turn.detectedIntent) # 0
        /\ \/ \E r \in Range(RequiredSlots(config, turn.detectedIntent)) :
                 turn.response = generateSlotFollowUpQuestion(r, turn.detectedIntent)
           \/ turn.response = executeSkill(config, extractSkillHandlers(config),
                                           turn.detectedIntent, turn.extractedSlots).response

\* C37: a message in flight sees one domain: every recorded turn names
\* the domain whose intents classified it, whose required slots it was
\* checked against and whose handler table answered it.
C37_MessageSeesOneDomain ==
    \A sid \in DOMAIN sessions : \A i \in DOMAIN sessions[sid].turns :
        TurnOfOneDomain(sessions[sid].turns[i])

CurrentSessionLive == currentSessionId = NoSession \/ Has(sessions, currentSessionId)

\* C38: after any sequence of startConversation, switchToSession,
\* endConversation, cleanupOldSessions and processMessage the engine's
\* currentSessionId is null or the id of a session in the store.
C38_CurrentSessionExists == CurrentSessionLive

\* Every operation but cleanupOldSessions keeps it so.
C38_KeptByEngineOperations ==
    [][(CurrentSessionLive /\ last'.op # "cleanupOldSessions") => CurrentSessionLive']_vars

\* C39: no step starts a collection for a session that has one in
\* progress: a collection that is in progress before and after a step
\* keeps its targetIntent, its requiredSlots and every slot it had
\* collected, also when several calls for the session are in flight.
C39_CollectionNeverRestarted ==
    [][\A sid \in (DOMAIN sessions) \cap (DOMAIN sessions') :
         LET before == getSlotCollectionState(sessions, sid)
             after  == getSlotCollectionState(sessions', sid)
         IN  (IsCollecting(before) /\ IsCollecting(after)) =>
                /\ after.targetIntent = before.targetIntent
                /\ after.requiredSlots = before.requiredSlots
                /\ DOMAIN before.collectedSlots \subseteq DOMAIN after.collectedSlots]_vars

\* Two calls for one session were in flight together: the second turn was
\* merged from a snapshot taken before the first call started the
\* collection, and the collection still holds the date of the first.
C39_Witness ==
    \E sid \in DOMAIN sessions :
        /\ Len(sessions[sid].turns) = 2
        /\ sessions[sid].turns[2].response.kind = "followup"
        /\ ~Has(sessions[sid].turns[2].extractedSlots, "date")
        /\ IsCollecting(getSlotCollectionState(sessions, sid))
        /\ Has(getSlotCollectionState(sessions, sid).collectedSlots, "date")

\* Two turns of one session taken one after the other, the second
\* continuing the collection of the first.
C39_WitnessSequential ==
    \E sid \in DOMAIN sessions :
        /\ Len(sessions[sid].turns) = 2
        /\ sessions[sid].turns[2].response.kind = "followup"
        /\ Has(sessions[sid].turns[1].extractedSlots, "date")
        /\ Has(sessions[sid].turns[2].extractedSlots, "date")
        /\ IsCollecting(getSlotCollectionState(sessions, sid))
        /\ Has(getSlotCollectionState(sessions, sid).collectedSlots, "date")

====
